---------------------------- MODULE Spec2Model ----------------------------
(***************************************************************************)
(* Runner selection of mongo/db/query/get_runner.cpp.                      *)
(*                                                                         *)
(* One behaviour is one invocation of an entry point (getRunner in both    *)
(* forms, getRunnerCount).  The inputs of the invocation are drawn in      *)
(* Init; what a collaborator (index catalog, query settings, sharding      *)
(* state, plan cache, planner) answers is drawn when the code calls it.    *)
(* Query solutions live in `heap`, so that ownership, destruction and      *)
(* leaks are visible.                                                      *)
(***************************************************************************)
EXTENDS Integers, Sequences, FiniteSets, TLC

(***************************************************************************)
(* Bounds of the model.                                                    *)
(***************************************************************************)
MaxSolutions == 2
MaxNumToReturn == 1
MaxVal == 2

(***************************************************************************)
(* QueryPlannerParams option bits, as a set of names.                      *)
(***************************************************************************)
NO_TABLE_SCAN == "NO_TABLE_SCAN"
INCLUDE_COLLSCAN == "INCLUDE_COLLSCAN"
INCLUDE_SHARD_FILTER == "INCLUDE_SHARD_FILTER"
INDEX_INTERSECTION == "INDEX_INTERSECTION"
KEEP_MUTATIONS == "KEEP_MUTATIONS"
PRIVATE_IS_COUNT == "PRIVATE_IS_COUNT"

\* The option bits a caller of getRunner passes.
CallerOptions == SUBSET {INCLUDE_SHARD_FILTER, PRIVATE_IS_COUNT}

(***************************************************************************)
(* Index bounds.  Key values are the integers 1..MaxVal; MinKey and MaxKey *)
(* are the sentinels below and above every value.                          *)
(***************************************************************************)
MinKey == 0
MaxKey == MaxVal + 1

Interval(s, e, si, ei) ==
    [start |-> s, end |-> e, startInclusive |-> si, endInclusive |-> ei]

\* Interval::isPoint
isPoint(iv) == iv.startInclusive /\ iv.endInclusive /\ iv.start = iv.end

\* IndexBoundsBuilder::allValues and its reverse (lines 490-492)
minMax == Interval(MinKey, MaxKey, TRUE, TRUE)
maxMin == Interval(MaxKey, MinKey, TRUE, TRUE)

\* Number of leading fields that hold exactly one point interval (lines 453-465)
RECURSIVE pointPrefix(_, _)
pointPrefix(fields, n) ==
    IF n < Len(fields) /\ Len(fields[n + 1]) = 1 /\ isPoint(fields[n + 1][1])
    THEN pointPrefix(fields, n + 1)
    ELSE n

\* An "all values" loop that forgets the inclusivity of the non-point interval:
\* the start key always gets the near sentinel and the end key the far one.
RECURSIVE allValuesSuffix_NoInclusivity(_, _, _, _, _, _)
allValuesSuffix_NoInclusivity(fields, fieldNo, startKey, endKey, sInc, eInc) ==
    IF fieldNo > Len(fields) \/ Len(fields[fieldNo]) # 1
    THEN [fieldNo |-> fieldNo, startKey |-> startKey, endKey |-> endKey]
    ELSE IF fields[fieldNo][1] = minMax
    THEN allValuesSuffix_NoInclusivity(fields, fieldNo + 1,
                                       Append(startKey, MinKey),
                                       Append(endKey, MaxKey), sInc, eInc)
    ELSE IF fields[fieldNo][1] = maxMin
    THEN allValuesSuffix_NoInclusivity(fields, fieldNo + 1,
                                       Append(startKey, MaxKey),
                                       Append(endKey, MinKey), sInc, eInc)
    ELSE [fieldNo |-> fieldNo, startKey |-> startKey, endKey |-> endKey]

\* The "all values" loop (lines 495-548): from field fieldNo on, append the
\* sentinels chosen by the inclusivity already decided; stop at the first field
\* that is not one all-values interval.  Returns the keys and the field reached.
RECURSIVE allValuesSuffix(_, _, _, _, _, _)
allValuesSuffix(fields, fieldNo, startKey, endKey, sInc, eInc) ==
    IF fieldNo > Len(fields) \/ Len(fields[fieldNo]) # 1
    THEN [fieldNo |-> fieldNo, startKey |-> startKey, endKey |-> endKey]
    ELSE IF fields[fieldNo][1] = minMax
    THEN allValuesSuffix(fields, fieldNo + 1,
                         Append(startKey, IF ~sInc THEN MaxKey ELSE MinKey),
                         Append(endKey, IF ~eInc THEN MinKey ELSE MaxKey),
                         sInc, eInc)
    ELSE IF fields[fieldNo][1] = maxMin
    THEN allValuesSuffix(fields, fieldNo + 1,
                         Append(startKey, IF ~sInc THEN MinKey ELSE MaxKey),
                         Append(endKey, IF ~eInc THEN MaxKey ELSE MinKey),
                         sInc, eInc)
    ELSE [fieldNo |-> fieldNo, startKey |-> startKey, endKey |-> endKey]

NotSingleInterval ==
    [ok |-> FALSE, startKey |-> <<>>, startKeyInclusive |-> TRUE,
     endKey |-> <<>>, endKeyInclusive |-> TRUE]

\* isSingleInterval: bounds.fields is a sequence of ordered interval lists.
isSingleInterval(fields) ==
    LET np == pointPrefix(fields, 0)
        pts == [i \in 1..np |-> fields[i][1].start]
    IN  IF np >= Len(fields)
        THEN [ok |-> TRUE, startKey |-> pts, startKeyInclusive |-> TRUE,
              endKey |-> pts, endKeyInclusive |-> TRUE]
        ELSE IF Len(fields[np + 1]) # 1
        THEN NotSingleInterval
        ELSE LET nonPoint == fields[np + 1][1]
                 r == allValuesSuffix(fields, np + 2,
                                      Append(pts, nonPoint.start),
                                      Append(pts, nonPoint.end),
                                      nonPoint.startInclusive,
                                      nonPoint.endInclusive)
             IN  IF r.fieldNo > Len(fields)
                 THEN [ok |-> TRUE,
                       startKey |-> r.startKey,
                       startKeyInclusive |-> nonPoint.startInclusive,
                       endKey |-> r.endKey,
                       endKeyInclusive |-> nonPoint.endInclusive]
                 ELSE NotSingleInterval

(***************************************************************************)
(* Query solution trees.  Every node is a record of one shape; the fields  *)
(* a node type does not have keep their empty value.                       *)
(***************************************************************************)
Node(type, hasFilter, children) ==
    [type |-> type, filter |-> hasFilter, children |-> children,
     indexKeyPattern |-> <<>>, bounds |-> <<>>, isSimpleRange |-> FALSE,
     startKey |-> <<>>, startKeyInclusive |-> TRUE,
     endKey |-> <<>>, endKeyInclusive |-> TRUE,
     direction |-> 1, fieldNo |-> 0]

IndexScanNode(keyPattern, bounds, hasFilter, simpleRange) ==
    [Node("IXSCAN", hasFilter, <<>>) EXCEPT
        !.indexKeyPattern = keyPattern, !.bounds = bounds,
        !.isSimpleRange = simpleRange]

FetchNode(hasFilter, child) == Node("FETCH", hasFilter, <<child>>)

CountNode(keyPattern, k) ==
    [Node("COUNT", FALSE, <<>>) EXCEPT
        !.indexKeyPattern = keyPattern,
        !.startKey = k.startKey, !.startKeyInclusive = k.startKeyInclusive,
        !.endKey = k.endKey, !.endKeyInclusive = k.endKeyInclusive]

\* A count rewrite that does not look at the filter of the fetch.
turnIxscanIntoCount_FilteredFetch(root) ==
    IF root.type # "FETCH" THEN [ok |-> FALSE, root |-> root]
    ELSE IF root.children[1].type # "IXSCAN" THEN [ok |-> FALSE, root |-> root]
    ELSE LET isn == root.children[1]
         IN  IF isn.filter \/ isn.isSimpleRange
             THEN [ok |-> FALSE, root |-> root]
             ELSE LET k == isSingleInterval(isn.bounds)
                  IN  IF ~k.ok
                      THEN [ok |-> FALSE, root |-> root]
                      ELSE [ok |-> TRUE,
                            root |-> CountNode(isn.indexKeyPattern, k)]

\* turnIxscanIntoCount: [ok, root], root being the solution's root afterwards.
turnIxscanIntoCount(root) ==
    IF root.type # "FETCH" THEN [ok |-> FALSE, root |-> root]
    ELSE IF root.filter THEN [ok |-> FALSE, root |-> root]
    ELSE IF root.children[1].type # "IXSCAN" THEN [ok |-> FALSE, root |-> root]
    ELSE LET isn == root.children[1]
         IN  IF isn.filter \/ isn.isSimpleRange
             THEN [ok |-> FALSE, root |-> root]
             ELSE LET k == isSingleInterval(isn.bounds)
                  IN  IF ~k.ok
                      THEN [ok |-> FALSE, root |-> root]
                      ELSE [ok |-> TRUE,
                            root |-> CountNode(isn.indexKeyPattern, k)]


ProjectionNode(child) == Node("PROJECTION", FALSE, <<child>>)

DistinctNode(keyPattern, direction, bounds, fieldNo) ==
    [Node("DISTINCT", FALSE, <<>>) EXCEPT
        !.indexKeyPattern = keyPattern, !.direction = direction,
        !.bounds = bounds, !.fieldNo = fieldNo]

\* The loop of lines 702-709: from n fields skipped, one more for every field
\* of the key pattern that is not the target, until one is or none is left.
RECURSIVE skipToField(_, _, _)
skipToField(keyPattern, field, n) ==
    IF n >= Len(keyPattern) THEN n
    ELSE IF keyPattern[n + 1] = field THEN n
    ELSE skipToField(keyPattern, field, n + 1)

\* A field number that falls back to the first field when none is the target.
distinctFieldNo_ZeroWhenAbsent(keyPattern, field) ==
    IF \E i \in 1..Len(keyPattern) : keyPattern[i] = field
    THEN skipToField(keyPattern, field, 0)
    ELSE 0

\* dn->fieldNo as lines 702-709 leave it
distinctFieldNo(keyPattern, field) == skipToField(keyPattern, field, 0)

\* turnIxscanIntoDistinctIxscan: [ok, root], root being the solution's root
\* afterwards.  The child is looked at only under a PROJECTION root.
turnIxscanIntoDistinctIxscan(root, field) ==
    IF root.type = "PROJECTION" /\ root.children[1].type = "IXSCAN"
    THEN LET isn == root.children[1]
         IN  IF isn.filter THEN [ok |-> FALSE, root |-> root]
             ELSE IF isn.isSimpleRange THEN [ok |-> FALSE, root |-> root]
             ELSE LET dn == DistinctNode(isn.indexKeyPattern, isn.direction,
                                         isn.bounds,
                                         distinctFieldNo(isn.indexKeyPattern,
                                                         field))
                  IN  [ok |-> TRUE,
                       root |-> [root EXCEPT !.children = <<dn>>]]
    ELSE [ok |-> FALSE, root |-> root]

(***************************************************************************)
(* State.                                                                  *)
(***************************************************************************)
VARIABLES
    entry,          \* the entry point called
    collection,     \* the Collection* argument: [present]
    catalog,        \* what the collection has answered so far
    allowedIndices, \* what the query settings hold for the query's shape
    noTableScan,    \* storageGlobalParams.noTableScan
    enableIndexIntersection, \* the server parameter of line 56
    instants,       \* the values the two toggles have had since the call
    cq,             \* the query; cq.made once it is a CanonicalQuery
    cqOwner,        \* who owns the canonical query
    cqDeletes,      \* how many times the canonical query was destroyed
    plannerOptions, \* the plannerOptions argument
    params,         \* QueryPlannerParams plannerParams
    cacheSeen,      \* what the plan cache gateway answered
    qs,             \* heap index of the cached primary solution, 0 for none
    backupQs,       \* heap index of the cached backup solution, 0 for NULL
    solutions,      \* vector<QuerySolution*> solutions: heap indices
    heap,           \* every QuerySolution created during the invocation
    out,            \* *out, the runner handed to the caller
    outCanonicalQuery, \* *outCanonicalQuery of the unparsed-query entry
    ret,            \* how the invocation ended
    calls,          \* the collaborator calls made so far, in order
    handed,         \* the params handed to planFromCache and plan, in order
    planned,        \* what QueryPlanner::plan answered
    pc,             \* the place the invocation has reached
    bounds,         \* isSingleInterval: the fields of the IndexBounds argument
    single,         \* isSingleInterval: what the call produced
    field,          \* the field distinct values are asked of
    solnRoot,       \* turnIxscanIntoDistinctIxscan: soln->root
    solnRootBefore, \* soln->root as it was when the call was made
    turned,         \* turnIxscanIntoDistinctIxscan: what the call returned
    indexCatalog,   \* getRunnerDistinct: the collection's index descriptors
    plannerParams,  \* getRunnerDistinct: QueryPlannerParams plannerParams
    delegated,      \* getRunnerDistinct returned through getRunner(cq, out)
    runners,        \* ScopedRunnerRegistration: runner -> its collection()
    registry,       \* collection -> its cursor cache's registered runners
    scopes,         \* the ScopedRunnerRegistration objects
    spec,           \* ParsedProjection::make: the projection document
    query,          \* ParsedProjection::make: the query document's field names
    pp              \* ParsedProjection::make: the status and the *out made

\* The state of the functions checked on their own, which no step of a
\* getRunner invocation touches.
boundsUnit == <<bounds, single>>
rewriteUnit == <<field, solnRoot, solnRootBefore, turned>>
distinctUnit == <<indexCatalog, plannerParams, delegated>>
registryUnit == <<runners, registry, scopes>>
projectionUnit == <<spec, query, pp>>
units == <<boundsUnit, rewriteUnit, distinctUnit, registryUnit, projectionUnit>>

\* What no step of an invocation changes.
env == <<entry, collection, allowedIndices, noTableScan,
         enableIndexIntersection, instants, units>>

vars == <<env, catalog, cq, cqOwner, cqDeletes, plannerOptions, params,
          cacheSeen, qs, backupQs, solutions, heap, out, outCanonicalQuery, ret,
          calls, handed, planned, pc>>

Namespaces == {"t.c"}
Filters == {"empty", "simpleId", "other"}
\* getSort(): empty, {$natural: 1}, or anything else
Sorts == {"empty", "natural1", "other"}

CanonicalQuery(ns, explain, diskLoc, tailable, filter, sort, ntr) ==
    [made |-> TRUE, ns |-> ns, explain |-> explain, showDiskLoc |-> diskLoc,
     tailable |-> tailable, filter |-> filter, sort |-> sort,
     numToReturn |-> ntr]

\* LiteParsedQuery keeps the absolute value of the wire ntoreturn, so
\* getNumToReturn() is never negative.
CanonicalQueries ==
    { CanonicalQuery(ns, ex, dl, ta, f, s, n) :
        ns \in Namespaces, ex \in BOOLEAN, dl \in BOOLEAN, ta \in BOOLEAN,
        f \in Filters, s \in Sorts, n \in 0..MaxNumToReturn }

\* What CanonicalQuery::canonicalize(ns, query, ...) makes for the count and
\* unparsed-query entries: no sort, no limit, no option flags.
PlainQuery(ns, filter) ==
    CanonicalQuery(ns, FALSE, FALSE, FALSE, filter, "empty", 0)

\* A query not canonicalized yet: its namespace and its filter document.
UnparsedQueries ==
    { [PlainQuery(ns, f) EXCEPT !.made = FALSE] :
        ns \in Namespaces, f \in Filters }

Collections == { [present |-> p] : p \in BOOLEAN }

\* The collection is locked during the invocation: what findIdIndex() and
\* isCapped() answer is drawn at the first call and stays.
NothingAsked ==
    [idIndex |-> "unknown", capped |-> "unknown", metadata |-> "unknown"]
Answers(known) == IF known = "unknown" THEN {"yes", "no"} ELSE {known}

NoRunner ==
    [type |-> "none", hasCollection |-> FALSE, ns |-> "", ownsQuery |-> FALSE,
     soln |-> 0, backup |-> 0, plans |-> <<>>]

\* A runner that is not told its namespace.
Runner_NoNamespace(type, hasColl, ns, ownsQuery, soln) ==
    [type |-> type, hasCollection |-> hasColl, ns |-> "",
     ownsQuery |-> ownsQuery, soln |-> soln, backup |-> 0, plans |-> <<>>]

Runner(type, hasColl, ns, ownsQuery, soln) ==
    [type |-> type, hasCollection |-> hasColl, ns |-> ns,
     ownsQuery |-> ownsQuery, soln |-> soln, backup |-> 0, plans |-> <<>>]

Running == [kind |-> "running", code |-> "", reason |-> ""]
OK == [kind |-> "status", code |-> "OK", reason |-> ""]
Status(code, reason) == [kind |-> "status", code |-> code, reason |-> reason]
\* An exception leaving the entry point (uassertStatusOK).
Threw(what) == [kind |-> "exception", code |-> "", reason |-> what]

NoParams ==
    [options |-> {}, indices |-> <<>>, indexFiltersApplied |-> FALSE,
     shardKey |-> ""]

\* What QuerySettings::getAllowedIndices answers: whether the query's shape
\* has index filters, and the key patterns they allow.
AllowedIndices(present, patterns) ==
    [present |-> present, indexKeyPatterns |-> patterns]
NotPlanned == [status |-> "none", solutions |-> <<>>]

(***************************************************************************)
(* Query solutions on the heap.                                            *)
(***************************************************************************)
NoCacheData == [present |-> FALSE, indexFilterApplied |-> FALSE]
CacheData == [present |-> TRUE, indexFilterApplied |-> FALSE]

Solution(origin, root, hasSortStage, cacheData) ==
    [origin |-> origin, root |-> root, hasSortStage |-> hasSortStage,
     cacheData |-> cacheData, owner |-> "caller", deletes |-> 0,
     built |-> FALSE]

NoSolution == Solution("none", Node("none", FALSE, <<>>), FALSE, NoCacheData)

\* What the plan cache gateway answered: whether the query was cacheable, the
\* lookup hit, planFromCache succeeded, and the primary it then made.
NoCache == [asked |-> FALSE, cacheable |-> FALSE, hit |-> FALSE,
            hydrated |-> FALSE, primary |-> NoSolution]
CacheAnswer(cacheable, hit, hydrated) ==
    [asked |-> TRUE, cacheable |-> cacheable, hit |-> hit,
     hydrated |-> hydrated, primary |-> NoSolution]

\* Shapes the planner and the cache hand back: a FETCH over an IXSCAN on {a: 1}
\* with bounds a: (1, MaxKey], and a filtered FETCH over the same scan.
fetchIxscan(fetchFilter) ==
    FetchNode(fetchFilter,
              IndexScanNode(<<"a">>, << <<Interval(1, MaxKey, FALSE, TRUE)>> >>,
                            FALSE, FALSE))

SolutionRoots == { fetchIxscan(FALSE), fetchIxscan(TRUE) }

NewSolutions(origin) ==
    { Solution(origin, r, s, c) :
        r \in SolutionRoots, s \in BOOLEAN, c \in {NoCacheData, CacheData} }

\* delete heap[i]
Delete(h, i) ==
    [h EXCEPT ![i].owner = "deleted", ![i].deletes = h[i].deletes + 1]

\* delete every solution of `idxs` (a set of heap indices)
DeleteAll(h, idxs) ==
    [i \in DOMAIN h |->
        IF i \in idxs
        THEN [h[i] EXCEPT !.owner = "deleted", !.deletes = h[i].deletes + 1]
        ELSE h[i]]

\* StageBuilder::build succeeded on heap[i]
Built(h, i) == [h EXCEPT ![i].built = TRUE]
\* a runner took ownership of heap[i]
Owned(h, i) == [h EXCEPT ![i].owner = "runner"]

(***************************************************************************)
(* Init: the arguments of one invocation.                                  *)
(***************************************************************************)
Entries == {"getRunner", "getRunnerUnparsed", "getRunnerCount"}

\* No function is being checked on its own.
NoBounds ==
    /\ bounds = <<>>
    /\ single = NotSingleInterval

NoRewrite ==
    /\ field = ""
    /\ solnRoot = Node("none", FALSE, <<>>)
    /\ solnRootBefore = Node("none", FALSE, <<>>)
    /\ turned = FALSE

NoDistinct ==
    /\ indexCatalog = <<>>
    /\ plannerParams = [options |-> {}, indices |-> <<>>]
    /\ delegated = FALSE

NoRegistry ==
    /\ runners = <<>>
    /\ registry = <<>>
    /\ scopes = <<>>

NoProjection ==
    /\ spec = <<>>
    /\ query = <<>>
    /\ pp = [status |-> "none"]

NoUnits ==
    NoBounds /\ NoRewrite /\ NoDistinct /\ NoRegistry /\ NoProjection

Init ==
    /\ NoUnits
    /\ entry \in Entries
    /\ collection \in Collections
    /\ catalog = NothingAsked
    /\ allowedIndices \in {AllowedIndices(FALSE, <<>>), AllowedIndices(TRUE, <<>>)}
    /\ noTableScan = FALSE
    /\ enableIndexIntersection = TRUE       \* its default, line 56
    /\ instants = {<<noTableScan, enableIndexIntersection>>}
    /\ \/ /\ entry = "getRunner"
          /\ cq \in CanonicalQueries
          /\ cqOwner = "caller"
          /\ plannerOptions \in CallerOptions
       \/ /\ entry = "getRunnerUnparsed"
          /\ cq \in UnparsedQueries
          /\ cqOwner = "none"
          /\ plannerOptions \in CallerOptions
       \/ /\ entry = "getRunnerCount"
          /\ collection.present           \* verify(collection), line 645
          /\ cq \in UnparsedQueries
          /\ cqOwner = "none"
          /\ plannerOptions = {}
    /\ cqDeletes = 0
    /\ params = NoParams
    /\ cacheSeen = NoCache
    /\ qs = 0
    /\ backupQs = 0
    /\ solutions = <<>>
    /\ heap = <<>>
    /\ out = NoRunner
    /\ outCanonicalQuery = "unset"
    /\ ret = Running
    /\ calls = <<>>
    /\ handed = <<>>
    /\ planned = NotPlanned
    /\ pc = entry


(***************************************************************************)
(* Pieces shared by the actions.                                           *)
(***************************************************************************)
\* An idhack test that also turns down a query with a sort.
canUseIDHack_NoSort(q) ==
    /\ ~q.explain
    /\ ~q.showDiskLoc
    /\ q.filter = "simpleId"
    /\ ~q.tailable
    /\ q.sort = "empty"

\* canUseIDHack (lines 58-63)
canUseIDHack(q) ==
    /\ ~q.explain
    /\ ~q.showDiskLoc
    /\ q.filter = "simpleId"
    /\ ~q.tailable

\* 0 < getNumToReturn() && !getSort().isEmpty() (lines 262-263, 378-379)
limitAndSort(q) == 0 < q.numToReturn /\ q.sort # "empty"

\* The invocation ends: what it returns, *out, the heap, the query's owner.
Finish(r, o, h, owner, dels) ==
    /\ ret' = r
    /\ out' = o
    /\ heap' = h
    /\ cqOwner' = owner
    /\ cqDeletes' = dels
    /\ pc' = "done"

\* An error return that holds the query by a raw pointer and leaves it alive.
ReturnError_KeepsQuery(code, reason, h) ==
    Finish(Status(code, reason), out, h, cqOwner, cqDeletes)

\* getRunner returns an error: auto_ptr<CanonicalQuery> destroys the query.
ReturnError(code, reason, h) ==
    Finish(Status(code, reason), out, h, "destroyed", cqDeletes + 1)

\* new SingleSolutionRunner(collection, canonicalQuery.release(), soln, root, ws)
SingleSolutionRunner(i) == Runner("SingleSolution", TRUE, cq.ns, TRUE, i)

(***************************************************************************)
(* getRunnerCount (lines 641-658)                                          *)
(***************************************************************************)
\* Whether canonicalize can fail on the query: only a filter that is neither
\* empty nor a plain _id equality can be malformed.
CanonicalizeAnswers(q) == IF q.filter = "other" THEN BOOLEAN ELSE {TRUE}

GetRunnerCount ==
    /\ pc = "getRunnerCount"
    /\ calls' = Append(calls, "canonicalize")
    /\ \E canonOK \in CanonicalizeAnswers(cq) :
        IF canonOK
        THEN /\ cq' = [cq EXCEPT !.made = TRUE]
             /\ cqOwner' = "caller"
             /\ plannerOptions' = {PRIVATE_IS_COUNT}
             /\ pc' = "getRunner"
             /\ UNCHANGED <<ret, cqDeletes>>
        ELSE \* uassertStatusOK throws
             /\ ret' = Threw("uassertStatusOK")
             /\ pc' = "done"
             /\ UNCHANGED <<cq, cqOwner, cqDeletes, plannerOptions>>
    /\ UNCHANGED <<env, catalog, params, cacheSeen, qs, backupQs,
                   solutions, heap, out, outCanonicalQuery, handed, planned>>

(***************************************************************************)
(* getRunner(collection, ns, unparsedQuery, ...) (lines 107-134)           *)
(***************************************************************************)
GetRunnerUnparsed ==
    /\ pc = "getRunnerUnparsed"
    /\ IF ~collection.present
       THEN /\ outCanonicalQuery' = "NULL"
            /\ out' = Runner("EOF", FALSE, cq.ns, FALSE, 0)
            /\ ret' = OK
            /\ pc' = "done"
            /\ UNCHANGED <<cq, cqOwner, calls, catalog>>
       ELSE \E idIndex \in IF cq.filter = "simpleId"
                            THEN Answers(catalog.idIndex) ELSE {"unknown"} :
            IF idIndex # "yes"
            THEN /\ calls' = calls
                             \o (IF cq.filter = "simpleId"
                                 THEN <<"findIdIndex">> ELSE <<>>)
                             \o <<"canonicalize">>
                 /\ catalog' = [catalog EXCEPT !.idIndex = idIndex]
                 /\ \E canonOK \in CanonicalizeAnswers(cq) :
                     IF canonOK
                     THEN /\ cq' = [cq EXCEPT !.made = TRUE]
                          /\ cqOwner' = "caller"
                          /\ outCanonicalQuery' = "query"
                          /\ pc' = "getRunner"
                          /\ UNCHANGED <<out, ret>>
                     ELSE /\ ret' = Status("BadValue", "canonicalize")
                          /\ pc' = "done"
                          /\ UNCHANGED <<cq, cqOwner, outCanonicalQuery, out>>
            ELSE /\ calls' = Append(calls, "findIdIndex")
                 /\ catalog' = [catalog EXCEPT !.idIndex = idIndex]
                 /\ outCanonicalQuery' = "NULL"
                 /\ out' = Runner("IDHack", TRUE, cq.ns, FALSE, 0)
                 /\ ret' = OK
                 /\ pc' = "done"
                 /\ UNCHANGED <<cq, cqOwner>>
    /\ UNCHANGED <<env, cqDeletes, plannerOptions, params, cacheSeen, qs,
                   backupQs, solutions, heap, handed, planned>>

(***************************************************************************)
(* getRunner(collection, rawCanonicalQuery, out, plannerOptions)           *)
(***************************************************************************)
\* lines 150-164: the EOF runner and the idhack runner
GetRunnerStart ==
    /\ pc = "getRunner"
    /\ IF ~collection.present
       THEN /\ Finish(OK, Runner("EOF", FALSE, cq.ns, TRUE, 0), heap,
                      "runner", cqDeletes)
            /\ UNCHANGED <<calls, catalog>>
       ELSE IF canUseIDHack(cq)
       THEN /\ calls' = Append(calls, "findIdIndex")
            /\ \E idIndex \in Answers(catalog.idIndex) :
                /\ catalog' = [catalog EXCEPT !.idIndex = idIndex]
                /\ IF idIndex = "yes"
                   THEN Finish(OK, Runner("IDHack", TRUE, cq.ns, TRUE, 0),
                               heap, "runner", cqDeletes)
                   ELSE /\ cqOwner' = "entry"
                        /\ pc' = "indices"
                        /\ UNCHANGED <<ret, out, heap, cqDeletes>>
       ELSE /\ cqOwner' = "entry"
            /\ pc' = "indices"
            /\ UNCHANGED <<ret, out, heap, cqDeletes, calls, catalog>>
    /\ UNCHANGED <<env, cq, plannerOptions, params, cacheSeen, qs, backupQs,
                   solutions, outCanonicalQuery, handed, planned>>

\* A filter that compares with the first allowed key pattern only.
filterAllowedIndexEntries_FirstPattern(allowed, indexEntries) ==
    SelectSeq(indexEntries,
              LAMBDA e : /\ allowed.indexKeyPatterns # <<>>
                         /\ allowed.indexKeyPatterns[1] = e.keyPattern)

\* lines 66-90: the entries whose key pattern is among the allowed ones
filterAllowedIndexEntries(allowed, indexEntries) ==
    SelectSeq(indexEntries,
              LAMBDA e : \E j \in DOMAIN allowed.indexKeyPatterns :
                            allowed.indexKeyPatterns[j] = e.keyPattern)

\* lines 166-189: the index entries and the index filters of the query settings
FillIndices ==
    /\ pc = "indices"
    /\ calls' = calls \o <<"getIndexIterator", "getAllowedIndices">>
    /\ LET indices == [i \in DOMAIN indexCatalog |->
                          [keyPattern |-> indexCatalog[i].keyPattern]]
       IN  params' =
             IF allowedIndices.present
             THEN [params EXCEPT
                     !.indices = filterAllowedIndexEntries(allowedIndices, indices),
                     !.indexFiltersApplied = TRUE]
             ELSE [params EXCEPT !.indices = indices]
    /\ pc' = "tailable"
    /\ UNCHANGED <<env, catalog, cq, cqOwner, cqDeletes, plannerOptions,
                   cacheSeen, qs, backupQs, solutions, heap, out,
                   outCanonicalQuery, ret, handed, planned>>

\* A tailable check that takes no sort at all, {$natural: 1} included.
tailableError_AnySort(q, capped) ==
    IF ~q.tailable THEN ""
    ELSE IF capped # "yes" THEN "tailable on non capped"
    ELSE IF q.sort # "empty" THEN "invalid tailable sort"
    ELSE ""

\* lines 192-208: the reason the tailable check fails with, "" when it passes
tailableError(q, capped) ==
    IF ~q.tailable THEN ""
    ELSE IF capped # "yes" THEN "tailable on non capped"
    ELSE IF q.sort # "empty" /\ q.sort # "natural1"
    THEN "invalid tailable sort"
    ELSE ""

\* lines 191-208
CheckTailable ==
    /\ pc = "tailable"
    /\ \E capped \in IF cq.tailable THEN Answers(catalog.capped)
                       ELSE {"unknown"} :
        /\ catalog' = [catalog EXCEPT !.capped = capped]
        /\ IF tailableError(cq, capped) # ""
           THEN ReturnError("BadValue", tailableError(cq, capped), heap)
           ELSE /\ pc' = "options"
                /\ UNCHANGED <<ret, out, heap, cqOwner, cqDeletes>>
    /\ UNCHANGED <<env, cq, plannerOptions, params, cacheSeen, qs, backupQs,
                   solutions, outCanonicalQuery, calls, handed, planned>>


\* string::npos != ns.find(".system.") and 0 == ns.find("local.") (lines 216-217)
containsSystem(ns) == ns \in {"t.system.c", "local.system.c"}
startsWithLocal(ns) == ns \in {"local.c", "local.system.c"}

\* Table-scan bits that take the toggle for every query and namespace.
tableScanOptions_NoIgnore(opts, toggle, q) ==
    LET o1 == IF toggle THEN opts \cup {NO_TABLE_SCAN} ELSE opts
    IN  IF NO_TABLE_SCAN \notin o1 THEN o1 \cup {INCLUDE_COLLSCAN} ELSE o1

\* lines 211-225: the table-scan bits, given the noTableScan toggle as read
tableScanOptions(opts, toggle, q) ==
    LET ignore == \/ q.filter = "empty"
                  \/ containsSystem(q.ns)
                  \/ startsWithLocal(q.ns)
        o1 == IF toggle /\ ~ignore THEN opts \cup {NO_TABLE_SCAN} ELSE opts
    IN  IF NO_TABLE_SCAN \notin o1 THEN o1 \cup {INCLUDE_COLLSCAN} ELSE o1

\* A shard filter that stays asked for when there is no metadata.
shardFilter_KeepsFlag(p, collMetadata) ==
    IF INCLUDE_SHARD_FILTER \in p.options /\ collMetadata # "NULL"
    THEN [p EXCEPT !.shardKey = collMetadata]
    ELSE p

\* lines 227-240: the shard filter, given the sharding metadata of the
\* namespace: "NULL", or the key pattern it holds
shardFilter(p, collMetadata) ==
    IF INCLUDE_SHARD_FILTER \in p.options
    THEN IF collMetadata # "NULL"
         THEN [p EXCEPT !.shardKey = collMetadata]
         ELSE [p EXCEPT !.options = p.options \ {INCLUDE_SHARD_FILTER}]
    ELSE p

\* lines 210-240
ProcessOptions ==
    /\ pc = "options"
    /\ LET p1 == [params EXCEPT
                    !.options = tableScanOptions(plannerOptions, noTableScan, cq)]
        IN  IF INCLUDE_SHARD_FILTER \in p1.options
            THEN /\ calls' = Append(calls, "getCollectionMetadata")
                 /\ \E collMetadata \in {"NULL", "{a: 1}", "{b: 1}"} :
                        /\ catalog' = [catalog EXCEPT !.metadata = collMetadata]
                        /\ params' = shardFilter(p1, collMetadata)
            ELSE /\ calls' = calls
                 /\ catalog' = catalog
                 /\ params' = p1
    /\ pc' = "cache"
    /\ UNCHANGED <<env, cq, cqOwner, cqDeletes, plannerOptions,
                   cacheSeen, qs, backupQs, solutions, heap, out,
                   outCanonicalQuery, ret, handed, planned>>

(***************************************************************************)
(* The plan cache gateway (lines 242-309).                                 *)
(* verify(StageBuilder::build(...)) asserts that a solution the planner or *)
(* the cache made under the collection's lock can be built: a build marks  *)
(* the solution built and goes on.                                         *)
(***************************************************************************)
\* The backup preference without its `delete qs`.
UseBackup_KeepsPrimary(h) ==
    Finish(OK, SingleSolutionRunner(2), Owned(Built(h, 2), 2),
           "runner", cqDeletes)

\* lines 257-275: both solutions, a limit and a sort: run the backup
UseBackup(h) ==
    Finish(OK, SingleSolutionRunner(2), Owned(Built(Delete(h, 1), 2), 2),
           "runner", cqDeletes)

\* The cached fast count without its `delete backupQs`.
UseCount_KeepsBackup(h, root, hasBackup) ==
    Finish(OK, SingleSolutionRunner(1),
           Owned(Built([h EXCEPT ![1].root = root], 1), 1),
           "runner", cqDeletes)

\* lines 278-290: the cached primary is a fast count in disguise
UseCount(h, root, hasBackup) ==
    LET h1 == Owned(Built([h EXCEPT ![1].root = root], 1), 1)
    IN  Finish(OK, SingleSolutionRunner(1),
               IF hasBackup THEN Delete(h1, 2) ELSE h1,
               "runner", cqDeletes)

\* lines 292-307: the cached plan runner, with the backup plan if there is one
UseCachedPlan(h, hasBackup) ==
    LET h1 == Owned(Built(h, 1), 1)
        cpr == Runner("CachedPlan", TRUE, cq.ns, TRUE, 1)
    IN  IF hasBackup
        THEN Finish(OK, [cpr EXCEPT !.backup = 2], Owned(Built(h1, 2), 2),
                    "runner", cqDeletes)
        ELSE Finish(OK, cpr, h1, "runner", cqDeletes)

\* lines 256-308: planFromCache made `primary` and, if hasBackup, `backup`
UseCache(primary, backup, hasBackup) ==
    LET h == IF hasBackup THEN <<primary, backup>> ELSE <<primary>>
        count == turnIxscanIntoCount(primary.root)
    IN  /\ qs' = 1
        /\ backupQs' = IF hasBackup THEN 2 ELSE 0
        /\ IF hasBackup /\ limitAndSort(cq)
           THEN UseBackup(h)
           ELSE IF PRIVATE_IS_COUNT \in params.options /\ count.ok
           THEN UseCount(h, count.root, hasBackup)
           ELSE UseCachedPlan(h, hasBackup)

\* getRunner goes on to full planning (line 311)
ToPlanning ==
    /\ pc' = "plan"
    /\ UNCHANGED <<qs, backupQs, heap, out, ret, cqOwner, cqDeletes>>

\* line 249: shouldCacheQuery is false, PlanCache::get is not called
NotCacheable ==
    /\ cacheSeen' = CacheAnswer(FALSE, FALSE, FALSE)
    /\ calls' = Append(calls, "shouldCacheQuery")
    /\ handed' = handed
    /\ ToPlanning

\* line 250: PlanCache::get has no solution for the query
CacheMiss ==
    /\ cacheSeen' = CacheAnswer(TRUE, FALSE, FALSE)
    /\ calls' = calls \o <<"shouldCacheQuery", "PlanCache::get">>
    /\ handed' = handed
    /\ ToPlanning

\* A gateway that returns the error of planFromCache to the caller.
HydrationFails_Surfaced ==
    /\ cacheSeen' = CacheAnswer(TRUE, TRUE, FALSE)
    /\ calls' = calls \o <<"shouldCacheQuery", "PlanCache::get",
                           "planFromCache">>
    /\ handed' = Append(handed, [to |-> "planFromCache", params |-> params])
    /\ ReturnError("BadValue", "planFromCache", heap)
    /\ UNCHANGED <<qs, backupQs>>

\* lines 254-255, 261, 277: planFromCache returns a non-OK status, which is
\* dropped
HydrationFails ==
    /\ cacheSeen' = CacheAnswer(TRUE, TRUE, FALSE)
    /\ calls' = calls \o <<"shouldCacheQuery", "PlanCache::get",
                           "planFromCache">>
    /\ handed' = Append(handed, [to |-> "planFromCache", params |-> params])
    /\ ToPlanning

\* lines 254-308: planFromCache returns OK
CacheHit ==
    /\ calls' = calls \o <<"shouldCacheQuery", "PlanCache::get",
                           "planFromCache">>
    /\ handed' = Append(handed, [to |-> "planFromCache", params |-> params])
    /\ \E primary \in NewSolutions("cache"), hasBackup \in BOOLEAN :
        \E backup \in IF hasBackup THEN NewSolutions("cacheBackup")
                      ELSE {primary} :
            /\ cacheSeen' = [CacheAnswer(TRUE, TRUE, TRUE) EXCEPT
                                !.primary = primary]
            /\ UseCache(primary, backup, hasBackup)

TryCache ==
    /\ pc = "cache"
    /\ \/ NotCacheable
       \/ CacheMiss
       \/ HydrationFails
       \/ CacheHit
    /\ UNCHANGED <<env, catalog, cq, plannerOptions, params, solutions,
                   outCanonicalQuery, planned>>

(***************************************************************************)
(* Full planning (lines 311-333)                                           *)
(***************************************************************************)
\* Sequences of at most MaxSolutions solutions
SolutionVectors ==
    UNION { [1..n -> NewSolutions("planner")] : n \in 0..MaxSolutions }

\* lines 311-315, given the enableIndexIntersection toggle as read
planningOptions(opts, toggle) ==
    (IF toggle THEN opts \cup {INDEX_INTERSECTION} ELSE opts)
        \cup {KEEP_MUTATIONS}

\* lines 311-318: the last option bits, and the call of QueryPlanner::plan
CallPlanner ==
    /\ pc = "plan"
    /\ calls' = Append(calls, "plan")
    /\ params' = [params EXCEPT
                    !.options = planningOptions(@, enableIndexIntersection)]
    /\ handed' = Append(handed, [to |-> "plan", params |-> params'])
    /\ pc' = "planning"
    /\ UNCHANGED <<env, catalog, cq, cqOwner, cqDeletes, plannerOptions,
                   cacheSeen, qs, backupQs, solutions, heap, out,
                   outCanonicalQuery, ret, planned>>

\* lines 319-323: the planner's error becomes BadValue
PlannerError ==
    /\ planned' = [status |-> "error", solutions |-> <<>>]
    /\ ReturnError("BadValue", "planner returned error", heap)
    /\ UNCHANGED solutions

\* lines 327-333: the planner has no solution
NoSolutions ==
    /\ planned' = [status |-> "OK", solutions |-> <<>>]
    /\ ReturnError("BadValue", "No query solutions", heap)
    /\ UNCHANGED solutions

\* line 318: the planner's solutions, new on the heap
Planned(vector) ==
    /\ planned' = [status |-> "OK", solutions |-> vector]
    /\ heap' = heap \o vector
    /\ solutions' = [i \in 1..Len(vector) |-> Len(heap) + i]
    /\ pc' = "select"
    /\ UNCHANGED <<out, ret, cqOwner, cqDeletes>>

\* lines 318-333: what the planner answers.  QueryPlanner::plan hands back
\* solutions only with an OK status.
PlannerReturns ==
    /\ pc = "planning"
    /\ \/ PlannerError
       \/ \E vector \in SolutionVectors :
            IF Len(vector) = 0 THEN NoSolutions ELSE Planned(vector)
    /\ UNCHANGED <<env, catalog, cq, plannerOptions, params, cacheSeen, qs,
                   backupQs, outCanonicalQuery, calls, handed>>

(***************************************************************************)
(* Choosing among the planner's solutions (lines 335-418)                  *)
(***************************************************************************)
Range(seq) == { seq[i] : i \in DOMAIN seq }

\* A count scan that keeps the last solution the rewrite accepts.
firstCount_Last(h, sols, i) ==
    LET accepted == { j \in i..Len(sols) :
                        turnIxscanIntoCount(h[sols[j]].root).ok }
    IN  IF accepted = {} THEN 0
        ELSE CHOOSE j \in accepted : \A k \in accepted : k <= j

\* lines 337-338: the first position whose solution turnIxscanIntoCount
\* accepts, 0 when there is none.  A rejected solution is left as it was.
RECURSIVE firstCount(_, _, _)
firstCount(h, sols, i) ==
    IF i > Len(sols) THEN 0
    ELSE IF turnIxscanIntoCount(h[sols[i]].root).ok THEN i
    ELSE firstCount(h, sols, i + 1)

\* A sort preference whose test of hasSortStage lost its negation.
firstNonBlocking_Inverted(h, sols, i) ==
    LET blocking == { j \in i..Len(sols) : h[sols[j]].hasSortStage }
    IN  IF blocking = {} THEN 0
        ELSE CHOOSE j \in blocking : \A k \in blocking : j <= k

\* lines 381-382: the first position without a blocking sort, 0 for none
RECURSIVE firstNonBlocking(_, _, _)
firstNonBlocking(h, sols, i) ==
    IF i > Len(sols) THEN 0
    ELSE IF ~h[sols[i]].hasSortStage THEN i
    ELSE firstNonBlocking(h, sols, i + 1)

\* lines 339-355: solutions[i] is rewritten, the others are deleted
SelectCount(i) ==
    LET s == solutions[i]
        h1 == [heap EXCEPT ![s].root = turnIxscanIntoCount(heap[s].root).root]
        h2 == DeleteAll(h1, Range(solutions) \ {s})
    IN  Finish(OK, SingleSolutionRunner(s), Owned(Built(h2, s), s),
               "runner", cqDeletes)

\* lines 360-369: the only solution
SelectSingle ==
    LET s == solutions[1]
    IN  Finish(OK, SingleSolutionRunner(s), Owned(Built(heap, s), s),
               "runner", cqDeletes)

\* A sort preference without its loop of `delete solutions[j]`.
SelectNonBlocking_KeepsOthers(i) ==
    Finish(OK, SingleSolutionRunner(solutions[i]),
           Owned(Built(heap, solutions[i]), solutions[i]),
           "runner", cqDeletes)

\* lines 383-398: solutions[i] has no blocking sort; it is built, then the
\* others are deleted
SelectNonBlocking(i) ==
    LET s == solutions[i]
    IN  Finish(OK, SingleSolutionRunner(s),
               Owned(DeleteAll(Built(heap, s), Range(solutions) \ {s}), s),
               "runner", cqDeletes)

\* A multi plan loop that never records the index filter marker.
markIndexFilter_Skip(sol, applied) == sol

\* lines 409-411 on one solution
markIndexFilter(sol, applied) ==
    IF sol.cacheData.present
    THEN [sol EXCEPT !.cacheData.indexFilterApplied = applied]
    ELSE sol

\* lines 406-415: the heap and the runner's plans after n rounds of the loop
RECURSIVE addPlans(_, _, _, _)
addPlans(h, sols, applied, n) ==
    IF n = 0 THEN [heap |-> h, plans |-> <<>>]
    ELSE LET before == addPlans(h, sols, applied, n - 1)
             s == sols[n]
         IN  [heap |-> [before.heap EXCEPT
                            ![s] = [markIndexFilter(@, applied) EXCEPT
                                        !.built = TRUE, !.owner = "runner"]],
              plans |-> Append(before.plans, s)]

\* lines 403-417: the multi plan runner
SelectMultiPlan ==
    LET mpr == addPlans(heap, solutions, params.indexFiltersApplied,
                        Len(solutions))
    IN  Finish(OK,
               [Runner("MultiPlan", TRUE, cq.ns, TRUE, 0) EXCEPT
                    !.plans = mpr.plans],
               mpr.heap, "runner", cqDeletes)

Select ==
    /\ pc = "select"
    /\ LET c == IF PRIVATE_IS_COUNT \in params.options
                THEN firstCount(heap, solutions, 1) ELSE 0
           nb == IF limitAndSort(cq)
                 THEN firstNonBlocking(heap, solutions, 1) ELSE 0
       IN  IF c # 0 THEN SelectCount(c)
           ELSE IF Len(solutions) = 1 THEN SelectSingle
           ELSE IF nb # 0 THEN SelectNonBlocking(nb)
           ELSE SelectMultiPlan
    /\ UNCHANGED <<env, catalog, cq, plannerOptions, params, cacheSeen, qs,
                   backupQs, solutions, outCanonicalQuery, calls, handed,
                   planned>>

Next ==
    \/ GetRunnerCount
    \/ GetRunnerUnparsed
    \/ GetRunnerStart
    \/ FillIndices
    \/ CheckTailable
    \/ ProcessOptions
    \/ TryCache
    \/ CallPlanner
    \/ PlannerReturns
    \/ Select

Spec == Init /\ [][Next]_vars

(***************************************************************************)
(* The functions checked on their own.  The selector's state stays idle.   *)
(***************************************************************************)
selector ==
    <<entry, collection, allowedIndices, noTableScan,
      enableIndexIntersection, instants, catalog, cq, cqOwner, cqDeletes, plannerOptions, params, cacheSeen, qs, backupQs,
      solutions, heap, out, outCanonicalQuery, ret, calls, handed, planned>>

\* No entry point is running; `at` is the function about to be called.
Idle(at) ==
    /\ entry = "none"
    /\ collection = [present |-> FALSE]
    /\ catalog = NothingAsked
    /\ allowedIndices = AllowedIndices(FALSE, <<>>)
    /\ noTableScan = FALSE
    /\ enableIndexIntersection = TRUE
    /\ instants = {<<noTableScan, enableIndexIntersection>>}
    /\ cq = [PlainQuery("t.c", "empty") EXCEPT !.made = FALSE]
    /\ cqOwner = "none"
    /\ cqDeletes = 0
    /\ plannerOptions = {}
    /\ params = NoParams
    /\ cacheSeen = NoCache
    /\ qs = 0
    /\ backupQs = 0
    /\ solutions = <<>>
    /\ heap = <<>>
    /\ out = NoRunner
    /\ outCanonicalQuery = "unset"
    /\ ret = Running
    /\ calls = <<>>
    /\ handed = <<>>
    /\ planned = NotPlanned
    /\ pc = at

(***************************************************************************)
(* isSingleInterval on its own (lines 436-558)                             *)
(***************************************************************************)
MaxFields == 3

\* the values a key field takes, the two sentinels included
KeyValues == MinKey..MaxKey

Intervals ==
    { Interval(s, e, si, ei) :
        s \in KeyValues, e \in KeyValues, si \in BOOLEAN, ei \in BOOLEAN }

\* OrderedIntervalList: one interval of any kind, or the two points of an $in
IntervalLists ==
    { <<iv>> : iv \in Intervals }
        \cup { <<Interval(1, 1, TRUE, TRUE), Interval(MaxVal, MaxVal, TRUE, TRUE)>> }

InitBounds ==
    /\ Idle("isSingleInterval")
    \* IndexBounds::fields of an index of 1..MaxFields fields
    /\ \E n \in 1..MaxFields : bounds \in [1..n -> IntervalLists]
    /\ single = NotSingleInterval
    /\ NoRewrite
    /\ NoDistinct
    /\ NoRegistry
    /\ NoProjection

CallIsSingleInterval ==
    /\ pc = "isSingleInterval"
    /\ single' = isSingleInterval(bounds)
    /\ pc' = "done"
    /\ UNCHANGED <<selector, bounds, rewriteUnit, distinctUnit, registryUnit,
                   projectionUnit>>

SpecBounds == InitBounds /\ [][CallIsSingleInterval]_vars

(***************************************************************************)
(* turnIxscanIntoDistinctIxscan on its own (lines 671-718)                 *)
(***************************************************************************)
FieldNames == {"a", "b", "c"}

\* the field asked for: a field of some index, or of none
Targets == FieldNames \cup {"z"}

\* key patterns of 1..MaxFields fields, no field twice
KeyPatterns ==
    UNION { { kp \in [1..n -> FieldNames] :
                \A i, j \in 1..n : kp[i] = kp[j] => i = j } :
            n \in 1..MaxFields }

\* IndexBoundsBuilder::allValuesBounds: [MinKey, MaxKey] on each of n fields
allValuesBounds(n) == [i \in 1..n |-> <<Interval(MinKey, MaxKey, TRUE, TRUE)>>]

\* bounds an index scan on `kp` comes with: every value, or a point on the
\* first field
ScanBounds(kp) ==
    { allValuesBounds(Len(kp)),
      [allValuesBounds(Len(kp)) EXCEPT ![1] = <<Interval(1, 1, TRUE, TRUE)>>] }

IndexScans ==
    UNION { { [IndexScanNode(kp, b, f, sr) EXCEPT !.direction = d] :
                b \in ScanBounds(kp), f \in BOOLEAN, sr \in BOOLEAN,
                d \in {1, -1} } :
            kp \in KeyPatterns }

\* what sits under the root of a solution
AccessPlans ==
    IndexScans \cup { Node("COLLSCAN", f, <<>>) : f \in BOOLEAN }
               \cup { FetchNode(FALSE, n) : n \in IndexScans }

\* soln->root: a projection or a fetch over an access plan, or the plan itself
RewriteInputs ==
    { ProjectionNode(c) : c \in AccessPlans }
        \cup { FetchNode(f, c) : f \in BOOLEAN, c \in AccessPlans }
        \cup AccessPlans

InitRewrite ==
    /\ Idle("turnIxscanIntoDistinctIxscan")
    /\ NoBounds
    /\ NoDistinct
    /\ NoRegistry
    /\ NoProjection
    /\ field \in Targets
    /\ solnRoot \in RewriteInputs
    /\ solnRootBefore = solnRoot
    /\ turned = FALSE

CallTurnIxscanIntoDistinctIxscan ==
    /\ pc = "turnIxscanIntoDistinctIxscan"
    /\ LET r == turnIxscanIntoDistinctIxscan(solnRoot, field)
       IN  /\ turned' = r.ok
           /\ solnRoot' = r.root
    /\ pc' = "done"
    /\ UNCHANGED <<selector, boundsUnit, distinctUnit, registryUnit,
                   projectionUnit, field, solnRootBefore>>

SpecRewrite == InitRewrite /\ [][CallTurnIxscanIntoDistinctIxscan]_vars

(***************************************************************************)
(* getRunnerDistinct (lines 720-844)                                       *)
(***************************************************************************)
MaxIndexes == 2
IntMax == 2147483647

\* An index descriptor: its key pattern, and whether findPluginName names a
\* plugin (geo, hashed, text) for it.
IndexDescriptors ==
    { [keyPattern |-> kp, special |-> sp] :
        kp \in { <<"a">>, <<"a", "b">>, <<"b">> }, sp \in BOOLEAN }
        \ { [keyPattern |-> <<"b">>, special |-> TRUE] }

IndexCatalogs == UNION { [1..n -> IndexDescriptors] : n \in 0..MaxIndexes }

\* A restricted index set that takes every index holding the field.
distinctCandidates_AnyField(descriptors, f) ==
    SelectSeq(descriptors,
              LAMBDA d : \E i \in 1..Len(d.keyPattern) : d.keyPattern[i] = f)

\* lines 741-753: the indexes whose first key-pattern field is the field
distinctCandidates(descriptors, f) ==
    SelectSeq(descriptors, LAMBDA d : d.keyPattern[1] = f)

\* lines 624-635: the loop, from index i on
RECURSIVE distinctNodeIndexFrom(_, _, _, _)
distinctNodeIndexFrom(indices, i, minFields, indexOut) ==
    IF i > Len(indices) THEN [minFields |-> minFields, indexOut |-> indexOut]
    ELSE IF indices[i].special
    THEN distinctNodeIndexFrom(indices, i + 1, minFields, indexOut)
    ELSE IF Len(indices[i].keyPattern) < minFields
    THEN distinctNodeIndexFrom(indices, i + 1, Len(indices[i].keyPattern), i)
    ELSE distinctNodeIndexFrom(indices, i + 1, minFields, indexOut)

\* A choice of index that does not skip the special ones.
getDistinctNodeIndex_AnyPlugin(indices) ==
    LET plain == [i \in 1..Len(indices) |->
                    [indices[i] EXCEPT !.special = FALSE]]
        r == distinctNodeIndexFrom(plain, 1, IntMax, 0)
    IN  [found |-> r.minFields # IntMax, indexOut |-> r.indexOut]

\* getDistinctNodeIndex: [found, indexOut]; indexOut is written only when
\* found.  Indices count from 1 here.
getDistinctNodeIndex(indices) ==
    LET r == distinctNodeIndexFrom(indices, 1, IntMax, 0)
    IN  [found |-> r.minFields # IntMax, indexOut |-> r.indexOut]

\* What the planner makes of the restricted indexes for a projected query: a
\* projection over a scan of one of them, plain or filtered, or over a fetch.
DistinctRoots(indices) ==
    UNION { { ProjectionNode(IndexScanNode(
                  indices[i].keyPattern,
                  allValuesBounds(Len(indices[i].keyPattern)), f, FALSE)) :
              f \in BOOLEAN }
            \cup { ProjectionNode(FetchNode(TRUE, IndexScanNode(
                      indices[i].keyPattern,
                      allValuesBounds(Len(indices[i].keyPattern)),
                      FALSE, FALSE))) } :
            i \in 1..Len(indices) }

DistinctSolutionVectors(indices) ==
    UNION { [1..n -> { Solution("distinct", r, FALSE, NoCacheData) :
                         r \in DistinctRoots(indices) }] :
            n \in 0..MaxSolutions }

\* lines 818-819: the first of solutions[i..] the rewrite accepts, 0 for none
RECURSIVE firstDistinct(_, _, _, _)
firstDistinct(h, sols, f, i) ==
    IF i > Len(sols) THEN 0
    ELSE IF turnIxscanIntoDistinctIxscan(h[sols[i]].root, f).ok THEN i
    ELSE firstDistinct(h, sols, f, i + 1)

InitDistinct ==
    /\ NoBounds
    /\ NoRegistry
    /\ NoProjection
    /\ solnRoot = Node("none", FALSE, <<>>)
    /\ solnRootBefore = Node("none", FALSE, <<>>)
    /\ turned = FALSE
    /\ field \in {"a", "b"}
    /\ indexCatalog \in IndexCatalogs
    /\ plannerParams = [options |-> {}, indices |-> <<>>]
    /\ delegated = FALSE
    /\ entry = "getRunnerDistinct"
    /\ collection = [present |-> TRUE]       \* verify(collection), line 725
    /\ catalog = NothingAsked
    /\ allowedIndices \in {AllowedIndices(FALSE, <<>>), AllowedIndices(TRUE, <<>>)}
    /\ noTableScan = FALSE
    /\ enableIndexIntersection = TRUE
    /\ instants = {<<noTableScan, enableIndexIntersection>>}
    /\ cq \in UnparsedQueries
    /\ cqOwner = "none"
    /\ cqDeletes = 0
    /\ plannerOptions = {}
    /\ params = NoParams
    /\ cacheSeen = NoCache
    /\ qs = 0
    /\ backupQs = 0
    /\ solutions = <<>>
    /\ heap = <<>>
    /\ out = NoRunner
    /\ outCanonicalQuery = "unset"
    /\ ret = Running
    /\ calls = <<>>
    /\ handed = <<>>
    /\ planned = NotPlanned
    /\ pc = "getRunnerDistinct"

\* return getRunner(cq, out): the normal entry takes the query over, on the
\* collection of its namespace (lines 96-105), with no planner options
Delegate(h) ==
    /\ delegated' = TRUE
    /\ heap' = h
    /\ pc' = "getRunner"
    /\ UNCHANGED <<ret, out, cqDeletes>>

\* lines 738-809: the restricted parameters, the canonical query, the
\* no-query shortcut, and the call of QueryPlanner::plan
GetRunnerDistinct ==
    /\ pc = "getRunnerDistinct"
    /\ LET indices == distinctCandidates(indexCatalog, field)
           pick == getDistinctNodeIndex(indices)
       IN  /\ plannerParams' = [options |-> {NO_TABLE_SCAN},
                                indices |-> indices]
           /\ \E canonOK \in CanonicalizeAnswers(cq) :
                IF ~canonOK
                THEN /\ calls' = calls \o <<"getIndexIterator", "canonicalize">>
                     /\ ret' = Status("BadValue", "canonicalize")
                     /\ pc' = "done"
                     /\ UNCHANGED <<cq, cqOwner, cqDeletes, heap, out,
                                    delegated>>
                ELSE IF indices = <<>>
                THEN /\ calls' = calls \o <<"getIndexIterator", "canonicalize">>
                     /\ cq' = [cq EXCEPT !.made = TRUE]
                     /\ cqOwner' = "caller"
                     /\ Delegate(heap)
                ELSE IF cq.filter = "empty" /\ pick.found
                THEN \* analyzeDataAccess puts the query's projection over dn
                     LET kp == indices[pick.indexOut].keyPattern
                         dn == DistinctNode(kp, 1, allValuesBounds(Len(kp)), 0)
                         soln == Solution("shortcut", ProjectionNode(dn),
                                          FALSE, NoCacheData)
                         s == Len(heap) + 1
                     IN  /\ calls' = calls \o <<"getIndexIterator",
                                                "canonicalize",
                                                "analyzeDataAccess">>
                         /\ cq' = [cq EXCEPT !.made = TRUE]
                         /\ Finish(OK, SingleSolutionRunner(s),
                                   Owned(Built(Append(heap, soln), s), s),
                                   "runner", cqDeletes)
                         /\ UNCHANGED delegated
                ELSE /\ calls' = calls \o <<"getIndexIterator", "canonicalize",
                                            "plan">>
                     /\ cq' = [cq EXCEPT !.made = TRUE]
                     /\ cqOwner' = "caller"
                     /\ pc' = "distinctPlanning"
                     /\ UNCHANGED <<cqDeletes, heap, out, ret, delegated>>
    /\ UNCHANGED <<entry, collection, allowedIndices, noTableScan,
                   enableIndexIntersection, instants,
                   boundsUnit, rewriteUnit, registryUnit, projectionUnit,
                   indexCatalog, catalog,
                   plannerOptions, params, cacheSeen, qs, backupQs, solutions,
                   outCanonicalQuery, handed, planned>>

\* lines 809-843: what the restricted planning answers, and the rewrite loop
DistinctPlannerReturns ==
    /\ pc = "distinctPlanning"
    /\ \/ /\ planned' = [status |-> "error", solutions |-> <<>>]
          /\ Delegate(heap)                         \* lines 810-812
          /\ UNCHANGED <<solutions, cqOwner>>
       \/ \E vector \in DistinctSolutionVectors(plannerParams.indices) :
            LET sols == [i \in 1..Len(vector) |-> Len(heap) + i]
                h == heap \o vector
                i == firstDistinct(h, sols, field, 1)
            IN  /\ planned' = [status |-> "OK", solutions |-> vector]
                /\ solutions' = sols
                /\ IF i # 0
                   THEN LET s == sols[i]
                            turnedRoot ==
                                turnIxscanIntoDistinctIxscan(h[s].root,
                                                             field).root
                            h1 == [h EXCEPT ![s].root = turnedRoot]
                            h2 == DeleteAll(h1, Range(sols) \ {s})
                        IN  /\ Finish(OK, SingleSolutionRunner(s),
                                      Owned(Built(h2, s), s), "runner",
                                      cqDeletes)
                            /\ UNCHANGED delegated
                   ELSE /\ Delegate(DeleteAll(h, Range(sols)))
                        /\ UNCHANGED cqOwner
    /\ UNCHANGED <<entry, collection, allowedIndices, noTableScan,
                   enableIndexIntersection, instants,
                   boundsUnit, rewriteUnit, registryUnit, projectionUnit,
                   indexCatalog, plannerParams,
                   catalog, cq, plannerOptions, params, cacheSeen, qs, backupQs,
                   outCanonicalQuery, calls, handed>>

NextDistinct ==
    \/ GetRunnerDistinct
    \/ DistinctPlannerReturns
    \/ GetRunnerStart
    \/ FillIndices
    \/ CheckTailable
    \/ ProcessOptions
    \/ TryCache
    \/ CallPlanner
    \/ PlannerReturns
    \/ Select

SpecDistinct == InitDistinct /\ [][NextDistinct]_vars

(***************************************************************************)
(* ScopedRunnerRegistration (lines 846-856)                                *)
(***************************************************************************)
MaxRunners == 3
MaxScopes == 2

\* what Runner::collection() answers: NULL for an EOF runner
RunnerCollections == {"NULL", "c1", "c2"}

\* cursorCache()->registerRunner / deregisterRunner: a set of runners
registerRunner(reg, c, r) == [reg EXCEPT ![c] = @ \cup {r}]
deregisterRunner(reg, c, r) == [reg EXCEPT ![c] = @ \ {r}]

\* A destructor that leaves the runner registered.
destructor_NoDeregister(reg, c, r) == reg

\* lines 853-856: ~ScopedRunnerRegistration on a runner whose collection is c
destructor(reg, c, r) ==
    IF c # "NULL" THEN deregisterRunner(reg, c, r) ELSE reg

\* The runners there are, and the runners other code has registered with
\* their collections' cursor caches.
InitRegistry ==
    /\ Idle("registry")
    /\ NoBounds
    /\ NoRewrite
    /\ NoDistinct
    /\ NoProjection
    /\ runners \in [(1..MaxRunners) -> RunnerCollections]
    /\ registry \in [RunnerCollections \ {"NULL"} -> SUBSET (1..MaxRunners)]
    /\ \A c \in DOMAIN registry : \A r \in registry[c] : runners[r] = c
    /\ scopes = [b \in 1..MaxScopes |->
                    [state |-> "none", _runner |-> 0, before |-> <<>>,
                     registered |-> 0, deregistered |-> 0]]

\* lines 846-851: ScopedRunnerRegistration(runner).  A cursor cache holds a
\* runner once: a runner it holds already is not registered again.
Construct(b, r) ==
    /\ scopes[b].state = "none"
    /\ runners[r] # "NULL" => r \notin registry[runners[r]]
    /\ IF runners[r] # "NULL"
       THEN /\ registry' = registerRunner(registry, runners[r], r)
            /\ scopes' = [scopes EXCEPT ![b] =
                            [state |-> "alive", _runner |-> r,
                             before |-> registry, registered |-> 1,
                             deregistered |-> 0]]
       ELSE /\ registry' = registry
            /\ scopes' = [scopes EXCEPT ![b] =
                            [state |-> "alive", _runner |-> r,
                             before |-> registry, registered |-> 0,
                             deregistered |-> 0]]
    /\ UNCHANGED <<selector, pc, boundsUnit, rewriteUnit, distinctUnit,
                   projectionUnit, runners>>

\* lines 853-856: ~ScopedRunnerRegistration()
Destroy(b) ==
    /\ scopes[b].state = "alive"
    /\ LET r == scopes[b]._runner
       IN  /\ registry' = destructor(registry, runners[r], r)
           /\ scopes' = [scopes EXCEPT
                           ![b].state = "destroyed",
                           ![b].deregistered =
                               IF registry' # registry THEN @ + 1 ELSE @]
    /\ UNCHANGED <<selector, pc, boundsUnit, rewriteUnit, distinctUnit,
                   projectionUnit, runners>>

NextRegistry ==
    \/ \E b \in (1..MaxScopes), r \in (1..MaxRunners) : Construct(b, r)
    \/ \E b \in (1..MaxScopes) : Destroy(b)

SpecRegistry == InitRegistry /\ [][NextRegistry]_vars

(***************************************************************************)
(* ParsedProjection::make (parsed_projection.cpp, lines 41-259)            *)
(***************************************************************************)
MaxElements == 3

\* A field name: its part before the first dot and what follows that dot
\* ("" when the name has no dot, "$" for the positional marker).
FieldName(top, rest) == [top |-> top, rest |-> rest]
ProjectionNames ==
    { FieldName("_id", ""), FieldName("a", ""), FieldName("b", ""),
      FieldName("a", "b"), FieldName("a", "$"), FieldName("b", "$") }

\* A value by what make asks of it: isNumber() || isBoolean(), Object ==
\* type(), trueValue(), and the one operator of an embedded object.
Value(simple, object, truth, op) ==
    [simple |-> simple, object |-> object, truth |-> truth, op |-> op]
ProjectionValues ==
    { Value(TRUE, FALSE, TRUE, ""),        \* 1, true
      Value(TRUE, FALSE, FALSE, ""),       \* 0, false
      Value(FALSE, FALSE, TRUE, ""),       \* "x"
      Value(FALSE, FALSE, FALSE, ""),      \* null
      Value(FALSE, TRUE, TRUE, "$slice"),        \* {$slice: 1}
      Value(FALSE, TRUE, TRUE, "$elemMatch"),    \* {$elemMatch: {c: 1}}
      Value(FALSE, TRUE, TRUE, "$other") }       \* {$other: 1}

ProjectionElements ==
    { [fieldName |-> n, value |-> v] :
        n \in ProjectionNames, v \in ProjectionValues }

\* field names of the query document: none, a, a.b, c.d, $and, c and $and
QueryDocuments ==
    { <<>>, <<FieldName("a", "")>>, <<FieldName("a", "b")>>,
      <<FieldName("c", "d")>>, <<FieldName("$and", "")>>,
      <<FieldName("c", ""), FieldName("$and", "")>> }

BadValue(reason) == [status |-> "BadValue", reason |-> reason]

\* lines 46-56: the locals before the walk
ProjectionLocals ==
    [status |-> "OK", reason |-> "", include_exclude |-> -1, include |-> TRUE,
     hasNonSimple |-> FALSE, hasDottedField |-> FALSE, includeID |-> TRUE,
     arrayOpType |-> "NORMAL"]

\* lines 66-170: one element, by its value
visitValue(st, e) ==
    IF e.value.object
    THEN IF e.value.op = "$slice" THEN st
         ELSE IF e.value.op = "$elemMatch"
         THEN IF st.arrayOpType = "POSITIONAL"
              THEN BadValue("Cannot specify positional operator and $elemMatch.")
              ELSE IF e.fieldName.rest # ""
              THEN BadValue("Cannot use $elemMatch projection on a nested field.")
              ELSE [st EXCEPT !.arrayOpType = "ELEM_MATCH"]
         ELSE BadValue("Unsupported projection option")
    ELSE IF e.fieldName = FieldName("_id", "") /\ ~e.value.truth
    THEN [st EXCEPT !.includeID = FALSE]
    ELSE LET s2 == [st EXCEPT
                      !.hasDottedField = @ \/ e.fieldName.rest # ""]
         IN  IF s2.include_exclude = -1
             THEN [s2 EXCEPT
                     !.include_exclude = IF e.value.truth THEN 1 ELSE 0,
                     !.include = ~e.value.truth]
             ELSE IF (s2.include_exclude # 0) # e.value.truth
             THEN BadValue("Projection cannot have a mix of inclusion and exclusion.")
             ELSE s2

\* A positional check that lets a second positional field through.
visitPositional_Many(st, e) ==
    IF e.fieldName.rest # "$" THEN st
    ELSE IF ~e.value.truth
    THEN BadValue("Cannot exclude array elements with the positional operator.")
    ELSE IF st.arrayOpType = "ELEM_MATCH"
    THEN BadValue("Cannot specify positional operator and $elemMatch.")
    ELSE [st EXCEPT !.arrayOpType = "POSITIONAL"]

\* lines 172-190: the positional operator in the element's name
visitPositional(st, e) ==
    IF e.fieldName.rest # "$" THEN st
    ELSE IF ~e.value.truth
    THEN BadValue("Cannot exclude array elements with the positional operator.")
    ELSE IF st.arrayOpType = "POSITIONAL"
    THEN BadValue("Cannot specify more than one positional proj. per query.")
    ELSE IF st.arrayOpType = "ELEM_MATCH"
    THEN BadValue("Cannot specify positional operator and $elemMatch.")
    ELSE [st EXCEPT !.arrayOpType = "POSITIONAL"]

\* lines 59-191: the walk over the elements from the i-th on
RECURSIVE walk(_, _, _)
walk(elements, i, st) ==
    IF i > Len(elements) THEN st
    ELSE LET e == elements[i]
             s1 == [st EXCEPT !.hasNonSimple = @ \/ ~e.value.simple]
             s2 == visitValue(s1, e)
             s3 == IF s2.status = "OK" THEN visitPositional(s2, e) ELSE s2
         IN  IF s3.status = "OK" THEN walk(elements, i + 1, s3) ELSE s3

\* A requires-document bit that leaves dotted fields out.
requiresDocument_NoDotted(st) == st.include \/ st.hasNonSimple

\* line 203
requiresDocument(st) == st.include \/ st.hasNonSimple \/ st.hasDottedField

\* Required fields that always start with _id.
requiredFields_AlwaysId(elements, st) ==
    <<FieldName("_id", "")>>
        \o [i \in 1..Len(SelectSeq(elements, LAMBDA e : e.value.truth)) |->
              SelectSeq(elements, LAMBDA e : e.value.truth)[i].fieldName]

\* lines 207-221
requiredFields(elements, st) ==
    LET inclusive == SelectSeq(elements, LAMBDA e : e.value.truth)
    IN  (IF st.includeID THEN <<FieldName("_id", "")>> ELSE <<>>)
            \o [i \in 1..Len(inclusive) |-> inclusive[i].fieldName]

\* A positional validation that looks at the first field of the query only.
positionalMatchesQuery_FirstField(elements, q) ==
    \E k \in 1..Len(q) :
        /\ k = 1
        /\ \/ q[k] = FieldName("$and", "")
           \/ \E i \in 1..Len(elements) :
                 /\ elements[i].fieldName.rest = "$"
                 /\ elements[i].fieldName.top = q[k].top

\* lines 233-258: some field of the query is $and, or starts like a
\* positional element of the projection
positionalMatchesQuery(elements, q) ==
    \E k \in 1..Len(q) :
        \/ q[k] = FieldName("$and", "")
        \/ \E i \in 1..Len(elements) :
              /\ elements[i].fieldName.rest = "$"
              /\ elements[i].fieldName.top = q[k].top

\* ParsedProjection::make: the status, and the ParsedProjection when OK
make(elements, q) ==
    LET st == walk(elements, 1, ProjectionLocals)
        made == [status |-> "OK", reason |-> "",
                 requiresDocument |-> requiresDocument(st),
                 requiredFields |-> IF requiresDocument(st) THEN <<>>
                                    ELSE requiredFields(elements, st),
                 arrayOpType |-> st.arrayOpType]
    IN  IF st.status # "OK" THEN BadValue(st.reason)
        ELSE IF st.arrayOpType # "POSITIONAL" THEN made
        ELSE IF positionalMatchesQuery(elements, q) THEN made
        ELSE BadValue("Positional operator does not match the query specifier.")

\* A document names a field once.
InitProjection ==
    /\ Idle("make")
    /\ NoBounds
    /\ NoRewrite
    /\ NoDistinct
    /\ NoRegistry
    /\ \E n \in 0..MaxElements :
          /\ spec \in [1..n -> ProjectionElements]
          /\ \A i, j \in 1..n :
                spec[i].fieldName = spec[j].fieldName => i = j
    /\ query \in QueryDocuments
    /\ pp = [status |-> "none"]

CallMake ==
    /\ pc = "make"
    /\ pp' = make(spec, query)
    /\ pc' = "done"
    /\ UNCHANGED <<selector, boundsUnit, rewriteUnit, distinctUnit,
                   registryUnit, spec, query>>

SpecProjection == InitProjection /\ [][CallMake]_vars

(***************************************************************************)
(* Vocabulary of the properties.                                           *)
(***************************************************************************)
Done == pc = "done"

\* getRunner(collection, cq, out, options) has taken its first step
PastStart == cq.made /\ pc \notin Entries

Positions(name) == { i \in DOMAIN calls : calls[i] = name }
Called(name) == Positions(name) # {}

Failed(code) == ret.kind = "status" /\ ret.code = code

\* heap[i] was destroyed, once, and never handed to the stage builder
DeletedOnce(i) ==
    heap[i].owner = "deleted" /\ heap[i].deletes = 1 /\ ~heap[i].built

\* heap[i] is alive, built, and owned by the runner
RunBy(i) == heap[i].owner = "runner" /\ heap[i].deletes = 0 /\ heap[i].built

\* *out is a single-solution runner over heap[i]
SingleOver(i) ==
    /\ ret = OK
    /\ out.type = "SingleSolution"
    /\ out.soln = i
    /\ RunBy(i)

\* the query has a non-zero limit and a non-empty sort
LimitAndSortAsked == cq.numToReturn # 0 /\ cq.sort # "empty"

\* the shape the count rewrite accepts: an unfiltered FETCH over an unfiltered
\* IXSCAN that is no simple range and whose bounds are one interval
CountShape(root) ==
    /\ root.type = "FETCH"
    /\ ~root.filter
    /\ Len(root.children) = 1
    /\ root.children[1].type = "IXSCAN"
    /\ ~root.children[1].filter
    /\ ~root.children[1].isSimpleRange
    /\ isSingleInterval(root.children[1].bounds).ok

Least(S) == CHOOSE i \in S : \A j \in S : i <= j

(***************************************************************************)
(* C1                                                                      *)
(***************************************************************************)
\* the calls to the index iterator, the query settings, the sharding state,
\* the plan cache and the planner
PlanningCalls ==
    {"getIndexIterator", "getAllowedIndices", "getCollectionMetadata",
     "shouldCacheQuery", "PlanCache::get", "planFromCache", "plan"}

\* the query is one the idhack serves
IdHackQuery ==
    /\ ~cq.explain
    /\ ~cq.showDiskLoc
    /\ ~cq.tailable
    /\ cq.filter = "simpleId"

\* C1: getRunner(collection, cq, options) on a non-null collection, for a
\* query that is not explain, not disk-loc, not tailable and a simple _id
\* equality: unless the catalog has answered that there is no _id index, the
\* invocation ends at once with OK and an IDHack runner, whatever the options,
\* and has consulted neither the index iterator, the query settings, the plan
\* cache nor the planner.
C1_IdHackBypassesPlanning ==
    (PastStart /\ collection.present /\ IdHackQuery /\ catalog.idIndex # "no")
    => /\ catalog.idIndex = "yes"
       /\ Done
       /\ ret = OK
       /\ out.type = "IDHack"
       /\ out.ownsQuery
       /\ \A i \in DOMAIN calls : calls[i] \notin PlanningCalls

C1_Witness ==
    /\ Done
    /\ entry = "getRunner"
    /\ plannerOptions = {INCLUDE_SHARD_FILTER, PRIVATE_IS_COUNT}
    /\ cq.sort = "other"
    /\ cq.numToReturn = 1
    /\ catalog.idIndex = "yes"
    /\ out.type = "IDHack"

(***************************************************************************)
(* C2                                                                      *)
(***************************************************************************)
\* the state kept by the code, without the logs of the model
programState ==
    <<cq, cqOwner, cqDeletes, params, qs, backupQs, solutions, heap, out,
      outCanonicalQuery, ret, planned>>

\* what full planning ends an invocation with
PlanningOutcome ==
    \/ /\ planned.status = "error"
       /\ ret = Status("BadValue", "planner returned error")
       /\ out = NoRunner
    \/ /\ planned.status = "OK"
       /\ planned.solutions = <<>>
       /\ ret = Status("BadValue", "No query solutions")
       /\ out = NoRunner
    \/ /\ planned.status = "OK"
       /\ planned.solutions # <<>>
       /\ ret = OK
       /\ out.type \in {"SingleSolution", "MultiPlan"}
       /\ \A i \in DOMAIN heap : heap[i].origin = "planner"

C2_Order ==
    /\ Cardinality(Positions("plan")) <= 1
    /\ \A p \in Positions("plan") :
        /\ \E s \in Positions("shouldCacheQuery") : s < p
        /\ \A g \in Positions("PlanCache::get") \cup Positions("planFromCache") :
            g < p
        /\ cacheSeen.asked
        /\ ~cacheSeen.cacheable \/ ~cacheSeen.hit \/ ~cacheSeen.hydrated
    /\ (cacheSeen.asked /\ cacheSeen.cacheable) => Called("PlanCache::get")
    /\ ret.reason # "planFromCache"
    /\ (Done /\ cacheSeen.asked /\ ~cacheSeen.hydrated)
        => Called("plan") /\ PlanningOutcome

\* a step in which planFromCache fails leaves the program where a missed
\* lookup leaves it: nothing changed, full planning next
C2_FailedHydrationIsAMiss ==
    (pc = "cache" /\ cacheSeen'.hit /\ ~cacheSeen'.hydrated)
    => /\ pc' = "plan"
       /\ UNCHANGED programState

\* C2: in one invocation the plan cache lookup comes before QueryPlanner::plan,
\* plan is called at most once and only when the query is not cacheable, the
\* lookup missed or planFromCache failed; the error of planFromCache is never
\* returned, and the invocation then ends as full planning ends it, as after
\* a miss.
C2_CacheBeforePlanning ==
    []C2_Order /\ [][C2_FailedHydrationIsAMiss]_vars

C2_Witness ==
    /\ Done
    /\ cacheSeen.hit
    /\ ~cacheSeen.hydrated
    /\ calls[Len(calls)] = "plan"
    /\ ret = OK
    /\ out.type = "MultiPlan"

(***************************************************************************)
(* C3                                                                      *)
(***************************************************************************)
\* C3: on a cache hit hydrated with a primary and a backup, for a query with
\* a non-zero limit and a non-empty sort, whatever the options: the primary is
\* destroyed, never built, and a single-solution runner over the backup is
\* returned.
C3_BackupPreferred ==
    (Done /\ cacheSeen.hydrated /\ backupQs # 0 /\ LimitAndSortAsked)
    => /\ SingleOver(backupQs)
       /\ heap[backupQs].origin = "cacheBackup"
       /\ heap[qs].origin = "cache"
       /\ DeletedOnce(qs)
       /\ out.ownsQuery /\ cqOwner = "runner"

C3_Witness ==
    /\ Done
    /\ cacheSeen.hydrated
    /\ backupQs # 0
    /\ cq.numToReturn = 1
    /\ cq.sort = "other"
    /\ PRIVATE_IS_COUNT \in plannerOptions
    /\ CountShape(cacheSeen.primary.root)
    /\ out.soln = backupQs

(***************************************************************************)
(* C4                                                                      *)
(***************************************************************************)
\* C4: on a hydrated cache hit without the backup preference: with
\* PRIVATE_IS_COUNT and a primary the count rewrite accepts, a single-solution
\* runner over the rewritten primary is returned and the backup, if any,
\* destroyed; in every other case a cached-plan runner holding the primary
\* and, exactly if there is one, the backup.
C4_CachedPlanOrCount ==
    (Done /\ cacheSeen.hydrated /\ ~(backupQs # 0 /\ LimitAndSortAsked))
    => IF PRIVATE_IS_COUNT \in plannerOptions
          /\ CountShape(cacheSeen.primary.root)
       THEN /\ SingleOver(qs)
            /\ heap[qs].root.type = "COUNT"
            /\ backupQs # 0 => DeletedOnce(backupQs)
       ELSE /\ ret = OK
            /\ out.type = "CachedPlan"
            /\ out.soln = qs
            /\ RunBy(qs)
            /\ heap[qs].root = cacheSeen.primary.root
            /\ out.backup = backupQs
            /\ backupQs # 0 => RunBy(backupQs)

C4_Witness ==
    /\ Done
    /\ cacheSeen.hydrated
    /\ backupQs # 0
    /\ cq.numToReturn = 0
    /\ PRIVATE_IS_COUNT \in plannerOptions
    /\ out.type = "SingleSolution"
    /\ heap[qs].root.type = "COUNT"
    /\ heap[backupQs].owner = "deleted"

(***************************************************************************)
(* C5                                                                      *)
(***************************************************************************)
\* C5: when QueryPlanner::plan answers with an error, or with OK and no
\* solution, getRunner returns BadValue, *out is not written, the canonical
\* query is destroyed (once) and no query solution is left alive.
C5_PlanningFails ==
    (planned.status = "error"
        \/ (planned.status = "OK" /\ planned.solutions = <<>>))
    => /\ Done
       /\ Failed("BadValue")
       /\ out = NoRunner
       /\ cqOwner = "destroyed"
       /\ cqDeletes = 1
       /\ \A i \in DOMAIN heap : heap[i].owner = "deleted"

C5_Witness ==
    /\ Done
    /\ planned.status = "OK"
    /\ planned.solutions = <<>>
    /\ cacheSeen.hit
    /\ ret = Status("BadValue", "No query solutions")
    /\ cqDeletes = 1

(***************************************************************************)
(* C6, C7, C8: the planner's solutions                                     *)
(***************************************************************************)
\* the planner answered with n >= 1 solutions, and the invocation has ended
PlannedSome == Done /\ planned.status = "OK" /\ planned.solutions # <<>>

\* positions of the planner's solutions the count rewrite accepts
CountPositions ==
    { i \in DOMAIN planned.solutions : CountShape(planned.solutions[i].root) }

\* positions of the planner's solutions without a blocking sort stage
NonBlockingPositions ==
    { i \in DOMAIN planned.solutions : ~planned.solutions[i].hasSortStage }

\* a count rewrite succeeded on a solution of the planner
CountRewritten == PRIVATE_IS_COUNT \in plannerOptions /\ CountPositions # {}

\* solutions[i] is as the planner returned it
AsPlanned(i) ==
    /\ heap[solutions[i]].root = planned.solutions[i].root
    /\ heap[solutions[i]].hasSortStage = planned.solutions[i].hasSortStage
    /\ heap[solutions[i]].cacheData.present
        = planned.solutions[i].cacheData.present

\* every solution but solutions[k] was destroyed once
OthersDeleted(k) ==
    \A j \in DOMAIN solutions : j # k => DeletedOnce(solutions[j])

\* C6: with PRIVATE_IS_COUNT and solutions s1..sn from the planner: a
\* single-solution runner over the lowest-numbered solution the count rewrite
\* accepts, its root now a COUNT node, every other solution destroyed exactly
\* once; when the rewrite accepts none, the selection goes on with all n
\* solutions, each as the planner returned it.
C6_CountOverPlanned ==
    (PlannedSome /\ PRIVATE_IS_COUNT \in plannerOptions)
    => /\ Len(solutions) = Len(planned.solutions)
       /\ IF CountPositions # {}
          THEN LET k == Least(CountPositions)
               IN  /\ SingleOver(solutions[k])
                   /\ heap[solutions[k]].root.type = "COUNT"
                   /\ OthersDeleted(k)
                   /\ \A j \in DOMAIN solutions : j # k => AsPlanned(j)
          ELSE /\ ret = OK
               /\ \A j \in DOMAIN solutions : AsPlanned(j)
               /\ \A j \in DOMAIN solutions : heap[solutions[j]].deletes <= 1
               /\ out.type = "MultiPlan" => Len(out.plans) = Len(solutions)
               /\ out.type \in {"SingleSolution", "MultiPlan"}

C6_Witness ==
    /\ PlannedSome
    /\ entry = "getRunnerCount"
    /\ Len(solutions) = 2
    /\ CountPositions = {1, 2}
    /\ out.soln = solutions[1]
    /\ heap[solutions[2]].owner = "deleted"

\* C7: after planning without a successful count rewrite: one solution: a
\* single-solution runner over it; two or more, a positive limit and a
\* non-empty sort: a single-solution runner over the first solution in planner
\* order without a blocking sort stage, all others destroyed; if every
\* solution has a blocking sort stage, or there is no limit or no sort, none
\* is destroyed and a multi plan runner is returned.
C7_SelectAmongPlanned ==
    (PlannedSome /\ ~CountRewritten)
    => /\ Len(solutions) = Len(planned.solutions)
       /\ IF Len(solutions) = 1
          THEN SingleOver(solutions[1]) /\ AsPlanned(1)
          ELSE IF cq.numToReturn > 0 /\ cq.sort # "empty"
                  /\ NonBlockingPositions # {}
          THEN LET k == Least(NonBlockingPositions)
               IN  /\ SingleOver(solutions[k])
                   /\ AsPlanned(k)
                   /\ OthersDeleted(k)
          ELSE /\ ret = OK
               /\ out.type = "MultiPlan"
               /\ \A j \in DOMAIN solutions : heap[solutions[j]].deletes = 0

C7_Witness ==
    /\ PlannedSome
    /\ Len(solutions) = 2
    /\ cq.numToReturn = 1
    /\ cq.sort = "other"
    /\ NonBlockingPositions = {2}
    /\ out.soln = solutions[2]
    /\ heap[solutions[1]].owner = "deleted"

\* C8: a multi plan runner that getRunner returns holds every solution the
\* planner returned, each once and in planner order, and each of them that
\* carries cache data has indexFilterApplied equal to the indexFiltersApplied
\* marker of the params.
C8_MultiPlanGetsAll ==
    (Done /\ out.type = "MultiPlan")
    => /\ ret = OK
       /\ planned.status = "OK"
       /\ Len(out.plans) = Len(planned.solutions)
       /\ \A i \in DOMAIN out.plans :
            /\ out.plans[i] = solutions[i]
            /\ AsPlanned(i)
            /\ heap[out.plans[i]].origin = "planner"
            /\ RunBy(out.plans[i])
            /\ heap[out.plans[i]].cacheData.present
                => heap[out.plans[i]].cacheData.indexFilterApplied
                    = params.indexFiltersApplied
       /\ \A i, j \in DOMAIN out.plans : i # j => out.plans[i] # out.plans[j]

C8_Witness ==
    /\ Done
    /\ out.type = "MultiPlan"
    /\ Len(out.plans) = 2
    /\ params.indexFiltersApplied
    /\ heap[out.plans[1]].cacheData.present
    /\ ~heap[out.plans[2]].cacheData.present
    /\ heap[out.plans[1]].root # heap[out.plans[2]].root

(***************************************************************************)
(* C9                                                                      *)
(***************************************************************************)
\* a tailable query on a non-null collection, past the tailable check
TailableChecked ==
    /\ PastStart
    /\ collection.present
    /\ cq.tailable
    /\ pc \notin {"indices", "tailable"}

\* what the tailable check turns down
TailableRejected ==
    \/ catalog.capped = "no"
    \/ cq.sort # "empty" /\ cq.sort # "natural1"

CacheOrPlannerConsulted ==
    \E i \in DOMAIN calls :
        calls[i] \in {"shouldCacheQuery", "PlanCache::get", "planFromCache",
                      "plan"}

\* C9 as stated: for a tailable query on a non-null collection getRunner
\* returns BadValue exactly when the collection is not capped or the sort is
\* non-empty and not {$natural: 1}.
C9_BadValueExactlyWhenRejected ==
    (TailableChecked /\ Done) => (Failed("BadValue") <=> TailableRejected)

\* C9, amended: for a tailable query on a non-null collection getRunner
\* returns BadValue without consulting the plan cache or the planner exactly
\* when the collection is not capped or the sort is non-empty and not
\* {$natural: 1}, and then writes no runner; an empty sort or {$natural: 1} on
\* a capped collection passes the check and goes on to the cache and the
\* planner.
C9_TailableCheck ==
    TailableChecked
    => /\ catalog.capped # "unknown"
       /\ TailableRejected
            => /\ Done
               /\ Failed("BadValue")
               /\ out = NoRunner
               /\ ~CacheOrPlannerConsulted
       /\ ~TailableRejected
            => /\ ret.reason \notin {"tailable on non capped",
                                     "invalid tailable sort"}
               /\ Done => CacheOrPlannerConsulted
       /\ (Done /\ Failed("BadValue") /\ ~CacheOrPlannerConsulted)
            => TailableRejected

C9_Witness ==
    /\ TailableChecked
    /\ Done
    /\ catalog.capped = "yes"
    /\ cq.sort = "natural1"
    /\ ret = OK
    /\ out.type = "SingleSolution"

(***************************************************************************)
(* C10                                                                     *)
(***************************************************************************)
\* C10: every failure of every entry point is a returned error status; no
\* invocation ends by an exception leaving the selector.
C10_NoExceptionEscapes == ret.kind # "exception"

(***************************************************************************)
(* C11                                                                     *)
(***************************************************************************)
\* the solutions not destroyed
Alive == { i \in DOMAIN heap : heap[i].owner # "deleted" }

\* every solution made in the invocation is owned by the runner and was never
\* destroyed, or was destroyed exactly once
SolutionsSettled ==
    \A i \in DOMAIN heap :
        \/ heap[i].owner = "runner" /\ heap[i].deletes = 0
        \/ heap[i].owner = "deleted" /\ heap[i].deletes = 1

\* the multi plan runner owns all the solutions the planner produced
MultiPlanOwnsAll ==
    /\ out.type = "MultiPlan"
    /\ Alive = Range(out.plans)
    /\ Alive = Range(solutions)
    /\ Cardinality(Alive) = Len(planned.solutions)

\* getRunner returned OK on a cache-hit path or on a planning path
ReturnedFromSolutions ==
    Done /\ PastStart /\ ret = OK /\ (cacheSeen.hydrated \/ planned.status = "OK")

\* C11 as stated: after a successful return on a cache-hit or planning path,
\* exactly one solution is alive and owned by the runner, or the runner is a
\* multi plan runner owning all the planner's solutions; every other solution
\* was destroyed exactly once.
C11_OneAliveOrMultiPlan ==
    ReturnedFromSolutions
    => /\ SolutionsSettled
       /\ \/ out.type # "MultiPlan" /\ Alive = {out.soln}
          \/ MultiPlanOwnsAll

\* C11, amended: after every successful return of getRunner every solution
\* made in the invocation is either alive and owned by the returned runner or
\* was destroyed exactly once; the alive ones are the one solution of a
\* single-solution runner, the primary and (if there is one) the backup of a
\* cached-plan runner, or all the planner's solutions of a multi plan runner;
\* the idhack and EOF returns have made no solution.
C11_SolutionOwnership ==
    (Done /\ PastStart /\ ret = OK)
    => /\ SolutionsSettled
       /\ CASE out.type = "SingleSolution" -> Alive = {out.soln}
            [] out.type = "CachedPlan" ->
                /\ out.soln = qs /\ out.backup = backupQs
                /\ Alive = {qs} \cup (IF backupQs # 0 THEN {backupQs} ELSE {})
            [] out.type = "MultiPlan" -> MultiPlanOwnsAll
            [] OTHER -> out.type \in {"IDHack", "EOF"} /\ heap = <<>>

C11_Witness ==
    /\ ReturnedFromSolutions
    /\ out.type = "CachedPlan"
    /\ backupQs # 0
    /\ Cardinality(Alive) = 2
    /\ RunBy(qs)
    /\ RunBy(backupQs)

(***************************************************************************)
(* C12                                                                     *)
(***************************************************************************)
\* C12: at every return of an entry point a canonical query that was made has
\* one owner: after a success the returned runner owns it and it was never
\* destroyed; after an error it was destroyed exactly once and the caller
\* holds no reference to it: *outCanonicalQuery does not refer to it.
C12_QueryHasOneOwner ==
    (Done /\ ret.kind = "status" /\ cq.made)
    => IF ret = OK
       THEN /\ cqOwner = "runner"
            /\ cqDeletes = 0
            /\ out.ownsQuery
       ELSE /\ cqOwner = "destroyed"
            /\ cqDeletes = 1
            /\ outCanonicalQuery # "query"

(***************************************************************************)
(* C13                                                                     *)
(***************************************************************************)
\* the direction in which a scan made for the bounds runs through a field
ascending(iv) == iv.start <= iv.end

\* key k1 comes before key k2 in the order of the index scan
comesBefore(k1, k2) ==
    \E i \in DOMAIN k1 :
        /\ \A j \in 1..(i - 1) : k1[j] = k2[j]
        /\ IF ascending(bounds[i][1]) THEN k1[i] < k2[i] ELSE k1[i] > k2[i]

\* value v lies inside interval iv
inside(v, iv) ==
    LET lo == IF ascending(iv) THEN iv.start ELSE iv.end
        hi == IF ascending(iv) THEN iv.end ELSE iv.start
        loInc == IF ascending(iv) THEN iv.startInclusive ELSE iv.endInclusive
        hiInc == IF ascending(iv) THEN iv.endInclusive ELSE iv.startInclusive
    IN  /\ lo < v \/ (lo = v /\ loInc)
        /\ v < hi \/ (v = hi /\ hiInc)

IndexKeys == [1..Len(bounds) -> KeyValues]

KeysBetween ==
    { k \in IndexKeys :
        /\ comesBefore(single.startKey, k)
            \/ (k = single.startKey /\ single.startKeyInclusive)
        /\ comesBefore(k, single.endKey)
            \/ (k = single.endKey /\ single.endKeyInclusive) }

KeysInBounds ==
    { k \in IndexKeys : \A i \in DOMAIN k : inside(k[i], bounds[i][1]) }

\* C13: for every bounds isSingleInterval accepts, over keys whose fields range
\* over MinKey..MaxKey and with the all-values fields in either direction: the
\* keys between startKey and endKey in index order, honouring the two
\* inclusivity flags, are the keys whose every field lies inside its interval.
C13_KeyRangeIsBounds ==
    (pc = "done" /\ bounds # <<>> /\ single.ok)
    => /\ Len(single.startKey) = Len(bounds)
       /\ Len(single.endKey) = Len(bounds)
       /\ KeysBetween = KeysInBounds

C13_Witness ==
    /\ pc = "done"
    /\ Len(bounds) = 3
    /\ single.ok
    /\ bounds[1][1] = Interval(1, MaxVal, FALSE, TRUE)
    /\ bounds[2][1] = minMax
    /\ bounds[3][1] = maxMin
    /\ single.startKey = <<1, MaxKey, MinKey>>
    /\ KeysBetween # {}

(***************************************************************************)
(* C14                                                                     *)
(***************************************************************************)
\* the solution handed to turnIxscanIntoDistinctIxscan was a projection over
\* an unfiltered index scan whose bounds are not a simple range
ProjectionOverPlainScan(r) ==
    /\ r.type = "PROJECTION"
    /\ Len(r.children) = 1
    /\ r.children[1].type = "IXSCAN"
    /\ ~r.children[1].filter
    /\ ~r.children[1].isSimpleRange

\* the positions of the key pattern that name the target
NamedLike(keyPattern, f) == { i \in 1..Len(keyPattern) : keyPattern[i] = f }

\* after a successful rewrite the projection is still the root and its child
\* is a Distinct node with the scan's key pattern, direction and bounds
DistinctUnderProjection ==
    LET isn == solnRootBefore.children[1]
    IN  /\ solnRoot.type = "PROJECTION"
        /\ Len(solnRoot.children) = 1
        /\ solnRoot.children[1].type = "DISTINCT"
        /\ solnRoot.children[1].indexKeyPattern = isn.indexKeyPattern
        /\ solnRoot.children[1].direction = isn.direction
        /\ solnRoot.children[1].bounds = isn.bounds

\* C14 as stated: turnIxscanIntoDistinctIxscan returns true exactly for a
\* projection over an unfiltered, non-simple-range index scan, leaves the
\* projection over a Distinct node with the same key pattern, direction and
\* bounds, and sets fieldNo to the position of the first key-pattern field
\* named like the target, or to zero when no field has that name.
C14_FieldNoZeroWhenAbsent ==
    pc = "done" =>
        /\ turned = ProjectionOverPlainScan(solnRootBefore)
        /\ turned =>
              /\ DistinctUnderProjection
              /\ LET kp == solnRootBefore.children[1].indexKeyPattern
                     at == NamedLike(kp, field)
                 IN  solnRoot.children[1].fieldNo =
                        IF at = {} THEN 0 ELSE Least(at) - 1

\* What the rewrite does: as C14 states it, but for a target that no
\* key-pattern field is named like, where fieldNo is the number of fields of
\* the key pattern (one past the last position).
C14_DistinctRewrite ==
    pc = "done" =>
        /\ turned = ProjectionOverPlainScan(solnRootBefore)
        /\ turned =>
              /\ DistinctUnderProjection
              /\ LET kp == solnRootBefore.children[1].indexKeyPattern
                     at == NamedLike(kp, field)
                 IN  solnRoot.children[1].fieldNo =
                        IF at = {} THEN Len(kp) ELSE Least(at) - 1

\* a rewrite that succeeded for a target no field of the key pattern names
C14_Witness ==
    /\ pc = "done"
    /\ turned
    /\ NamedLike(solnRoot.children[1].indexKeyPattern, field) = {}
    /\ solnRoot.children[1].fieldNo > 0

(***************************************************************************)
(* C15                                                                     *)
(***************************************************************************)
\* QueryPlanner::plan was called with the restricted parameters: the third
\* call of getRunnerDistinct, before anything the normal entry calls
RestrictedPlanCalled == Len(calls) >= 3 /\ calls[3] = "plan"

\* the no-query shortcut made the solution
ShortcutTaken == \E i \in DOMAIN calls : calls[i] = "analyzeDataAccess"

\* the solutions of the restricted planning, on the heap
Restricted == { i \in DOMAIN heap : heap[i].origin = "distinct" }

\* C15: the restricted parameters hold only indexes whose first key-pattern
\* field is the target (and all of them); with no such index the call goes to
\* the normal entry without planning; otherwise, the shortcut apart, the
\* result is a single-solution runner over the first restricted solution that
\* is a projection over a plain index scan, rewritten, every other restricted
\* solution destroyed once; and when none is accepted every restricted
\* solution is destroyed once and the call goes to the normal entry.
C15_RestrictedDistinct ==
    (entry = "getRunnerDistinct" /\ pc \notin {"getRunnerDistinct",
                                               "distinctPlanning"}) =>
        LET first == { j \in DOMAIN indexCatalog :
                         indexCatalog[j].keyPattern[1] = field }
        IN  /\ \A i \in DOMAIN plannerParams.indices :
                  plannerParams.indices[i].keyPattern[1] = field
            /\ Len(plannerParams.indices) = Cardinality(first)
            /\ (cq.made /\ first = {}) =>
                  delegated /\ ~RestrictedPlanCalled /\ Restricted = {}
            /\ (cq.made /\ first # {} /\ ~ShortcutTaken) =>
                  /\ RestrictedPlanCalled
                  /\ IF delegated
                     THEN \A i \in Restricted :
                            /\ ~ProjectionOverPlainScan(heap[i].root)
                            /\ heap[i].owner = "deleted"
                            /\ heap[i].deletes = 1
                     ELSE LET accepted ==
                                { j \in DOMAIN planned.solutions :
                                    ProjectionOverPlainScan(
                                        planned.solutions[j].root) }
                              s == Least(accepted)
                          IN  /\ pc = "done"
                              /\ ret = OK
                              /\ accepted # {}
                              /\ out.type = "SingleSolution"
                              /\ out.soln = s
                              /\ heap[s].origin = "distinct"
                              /\ heap[s].owner = "runner"
                              /\ heap[s].deletes = 0
                              /\ heap[s].root.children[1].type = "DISTINCT"
                              /\ \A i \in Restricted \ {s} :
                                    /\ heap[i].owner = "deleted"
                                    /\ heap[i].deletes = 1

\* the rewrite turned the first restricted solution down and took the second
C15_Witness ==
    /\ entry = "getRunnerDistinct"
    /\ pc = "done"
    /\ ~delegated
    /\ Len(planned.solutions) = 2
    /\ ~ProjectionOverPlainScan(planned.solutions[1].root)
    /\ out.soln = 2
    /\ heap[1].deletes = 1

(***************************************************************************)
(* C16                                                                     *)
(***************************************************************************)
\* the key patterns of the candidate indexes that have no plugin
PlainCandidates ==
    { indexCatalog[j].keyPattern :
        j \in { k \in DOMAIN indexCatalog :
                  /\ indexCatalog[k].keyPattern[1] = field
                  /\ ~indexCatalog[k].special } }

\* C16: getRunnerDistinct with an empty query and a candidate index.  With a
\* non-special candidate the result is a single-solution runner over a
\* Distinct node, fieldNo 0, direction 1, every value on every field, on a
\* non-special candidate with the fewest fields, and QueryPlanner::plan is
\* never called; with only special candidates the shortcut is not taken and
\* the restricted planning runs.
C16_NoQueryShortcut ==
    (/\ entry = "getRunnerDistinct"
     /\ pc # "getRunnerDistinct"
     /\ cq.filter = "empty"
     /\ \E j \in DOMAIN indexCatalog : indexCatalog[j].keyPattern[1] = field)
    => IF PlainCandidates # {}
       THEN /\ pc = "done"
            /\ ret = OK
            /\ out.type = "SingleSolution"
            /\ heap[out.soln].owner = "runner"
            /\ \A i \in DOMAIN calls : calls[i] # "plan"
            /\ LET dn == heap[out.soln].root.children[1]
               IN  /\ dn.type = "DISTINCT"
                   /\ dn.fieldNo = 0
                   /\ dn.direction = 1
                   /\ dn.indexKeyPattern \in PlainCandidates
                   /\ \A kp \in PlainCandidates :
                         Len(dn.indexKeyPattern) <= Len(kp)
                   /\ dn.bounds =
                         [i \in 1..Len(dn.indexKeyPattern) |->
                            <<Interval(MinKey, MaxKey, TRUE, TRUE)>>]
       ELSE ~ShortcutTaken /\ RestrictedPlanCalled

\* the shortcut passed over a special candidate and a longer key pattern
C16_Witness ==
    /\ entry = "getRunnerDistinct"
    /\ pc = "done"
    /\ ShortcutTaken
    /\ \E j \in DOMAIN indexCatalog :
          indexCatalog[j].keyPattern[1] = field /\ indexCatalog[j].special
    /\ Cardinality(PlainCandidates) = 1
    /\ Len(plannerParams.indices) = 2

(***************************************************************************)
(* C17                                                                     *)
(***************************************************************************)
\* the runners that a scope other than b has been made for
BoundBesides(b) ==
    { scopes[x]._runner :
        x \in { y \in (1..MaxScopes) \ {b} : scopes[y].state # "none" } }

SimpleProjectionParsed ==
    /\ pc = "done"
    /\ pp.status # "none"
    /\ \A i \in DOMAIN spec :
          spec[i].value.simple /\ spec[i].fieldName.rest = ""

MixedRejected ==
    /\ pp.status = "BadValue"
    /\ pp.reason = "Projection cannot have a mix of inclusion and exclusion."

\* C18: over boolean and number values, the first element whose name is not
\* _id pins the polarity, and make answers the mixed inclusion/exclusion
\* BadValue exactly when a later element whose name is not _id has the
\* other polarity; an _id element pins nothing and _id: <falsy> is accepted
\* anywhere.
C18_IdNeverPins ==
    SimpleProjectionParsed =>
        LET nonId == { i \in DOMAIN spec :
                         spec[i].fieldName # FieldName("_id", "") }
        IN  MixedRejected <=>
                /\ nonId # {}
                /\ \E j \in nonId :
                      spec[j].value.truth # spec[Least(nonId)].value.truth

(***************************************************************************)
(* C19                                                                     *)
(***************************************************************************)
\* the projection has _id: <falsy>
IdExcluded ==
    \E i \in DOMAIN spec :
        spec[i].fieldName = FieldName("_id", "") /\ ~spec[i].value.truth

\* C19: when make accepts a projection with requiresDocument false, every
\* required field is a name without a dot, every required field other than
\* _id is an inclusive element of the projection, and _id is required
\* exactly when the projection has no _id: <falsy>.
C19_RequiredFields ==
    (pc = "done" /\ pp.status = "OK" /\ ~pp.requiresDocument) =>
        /\ \A k \in DOMAIN pp.requiredFields :
              /\ pp.requiredFields[k].rest = ""
              /\ pp.requiredFields[k] # FieldName("_id", "") =>
                    \E i \in DOMAIN spec :
                        /\ spec[i].fieldName = pp.requiredFields[k]
                        /\ spec[i].value.truth
        /\ (\E k \in DOMAIN pp.requiredFields :
                pp.requiredFields[k] = FieldName("_id", "")) <=> ~IdExcluded

\* a covered projection that drops _id: {a: 1, _id: 0}
C19_Witness ==
    /\ pc = "done"
    /\ pp.status = "OK"
    /\ ~pp.requiresDocument
    /\ IdExcluded
    /\ pp.requiredFields = <<FieldName("a", "")>>

(***************************************************************************)
(* C20                                                                     *)
(***************************************************************************)
\* the projection has a value that is no boolean or number, or a dotted name
NonSimpleOrDotted ==
    \E i \in DOMAIN spec : ~spec[i].value.simple \/ spec[i].fieldName.rest # ""

\* the names of the inclusive elements, and _id unless it is excluded
InclusiveNames ==
    { spec[i].fieldName : i \in { j \in DOMAIN spec : spec[j].value.truth } }
        \cup (IF IdExcluded THEN {} ELSE {FieldName("_id", "")})

\* C20 as stated: an accepted projection with a sub-operator or a dotted
\* name requires the document and has no required fields; every other
\* accepted projection does not require the document, and its required
\* fields are the inclusive names, plus _id when it is retained.
C20_CoveredUnlessNonSimpleOrDotted ==
    (pc = "done" /\ pp.status = "OK" /\ spec # <<>>) =>
        IF NonSimpleOrDotted
        THEN pp.requiresDocument /\ pp.requiredFields = <<>>
        ELSE /\ ~pp.requiresDocument
             /\ Range(pp.requiredFields) = InclusiveNames

\* C20, amended: an accepted projection requires the document, and has no
\* required fields, when it has a sub-operator or a dotted name or when it
\* has no inclusive element (an exclusion, an empty projection, or
\* _id: <falsy> alone); every other
\* accepted projection does not require the document, and its required
\* fields are the inclusive names, plus _id when it is retained.
C20_RequiresDocument ==
    (pc = "done" /\ pp.status = "OK") =>
        IF NonSimpleOrDotted \/ ~\E i \in DOMAIN spec : spec[i].value.truth
        THEN pp.requiresDocument /\ pp.requiredFields = <<>>
        ELSE /\ ~pp.requiresDocument
             /\ Range(pp.requiredFields) = InclusiveNames

\* an accepted exclusion of plain fields: it requires the document
C20_Witness ==
    /\ pc = "done"
    /\ pp.status = "OK"
    /\ spec # <<>>
    /\ ~NonSimpleOrDotted
    /\ \A i \in DOMAIN spec : ~spec[i].value.truth
    /\ pp.requiresDocument
    /\ pp.requiredFields = <<>>

(***************************************************************************)
(* turnIxscanIntoCount on its own (lines 566-611), called twice on the      *)
(* same solution                                                           *)
(***************************************************************************)
\* a solution over an index scan whose fields hold a point, a range, all
\* values in either direction, all values short of MaxKey, two points, or no
\* interval
InitCount ==
    /\ Idle("turnIxscanIntoCount")
    /\ NoBounds
    /\ NoDistinct
    /\ NoRegistry
    /\ NoProjection
    /\ field = ""
    /\ \E kp \in KeyPatterns, f \in BOOLEAN, sr \in BOOLEAN, rf \in BOOLEAN :
        \E b \in [1..Len(kp) ->
                    { <<Interval(1, 1, TRUE, TRUE)>>,
                      <<Interval(1, MaxVal, TRUE, FALSE)>>,
                      <<minMax>>, <<maxMin>>,
                      <<Interval(MinKey, MaxKey, TRUE, FALSE)>>,
                      <<Interval(1, 1, TRUE, TRUE),
                        Interval(MaxVal, MaxVal, TRUE, TRUE)>>,
                      <<>> }] :
            LET isn == IndexScanNode(kp, b, f, sr)
            IN  solnRoot \in { FetchNode(rf, isn), isn, ProjectionNode(isn),
                               FetchNode(rf, Node("COLLSCAN", f, <<>>)) }
    /\ solnRootBefore = solnRoot
    /\ turned = FALSE

CallTurnIxscanIntoCount ==
    /\ pc \in {"turnIxscanIntoCount", "once"}
    /\ LET r == turnIxscanIntoCount(solnRoot)
       IN  /\ turned' = r.ok
           /\ solnRoot' = r.root
    /\ solnRootBefore' = solnRoot
    /\ pc' = IF pc = "once" THEN "done" ELSE "once"
    /\ UNCHANGED <<selector, boundsUnit, distinctUnit, registryUnit,
                   projectionUnit, field>>

SpecCount == InitCount /\ [][CallTurnIxscanIntoCount]_vars

(***************************************************************************)
(* The planner params of getRunner on their own (lines 166-240, 311-315)   *)
(***************************************************************************)
MaxEntries == 3
MaxAllowed == 3

\* Nothing has been done yet for the invocation.
NothingDone ==
    /\ catalog = NothingAsked
    /\ cqDeletes = 0
    /\ params = NoParams
    /\ cacheSeen = NoCache
    /\ qs = 0
    /\ backupQs = 0
    /\ solutions = <<>>
    /\ heap = <<>>
    /\ out = NoRunner
    /\ outCanonicalQuery = "unset"
    /\ ret = Running
    /\ calls = <<>>
    /\ handed = <<>>
    /\ planned = NotPlanned

\* getRunner on a collection with up to MaxEntries indexes, of different key
\* patterns, and query settings that allow up to MaxAllowed key patterns
InitFilter ==
    /\ NoBounds /\ NoRewrite /\ NoRegistry /\ NoProjection
    /\ plannerParams = [options |-> {}, indices |-> <<>>]
    /\ delegated = FALSE
    /\ \E n \in 0..MaxEntries :
          /\ indexCatalog \in [1..n -> { d \in IndexDescriptors : ~d.special }]
          /\ \A i, j \in 1..n : indexCatalog[i] = indexCatalog[j] => i = j
    /\ \/ allowedIndices = AllowedIndices(FALSE, <<>>)
       \/ \E n \in 0..MaxAllowed :
            \E patterns \in [1..n -> { <<"a">>, <<"a", "b">>, <<"b">>, <<"c">> }] :
                allowedIndices = AllowedIndices(TRUE, patterns)
    /\ entry = "getRunner"
    /\ collection = [present |-> TRUE]
    /\ noTableScan = FALSE
    /\ enableIndexIntersection = TRUE
    /\ instants = {<<noTableScan, enableIndexIntersection>>}
    /\ cq = PlainQuery("t.c", "other")
    /\ cqOwner = "caller"
    /\ plannerOptions = {}
    /\ NothingDone
    /\ pc = "getRunner"

NextFilter ==
    \/ GetRunnerStart
    \/ FillIndices

SpecFilter == InitFilter /\ [][NextFilter]_vars

\* getRunner, canonical or unparsed, under either value of the two toggles,
\* with the table-scan and shard-filter bits the caller may pass, on a plain
\* namespace, a .system. one and two of the local database
InitOptions ==
    /\ NoUnits
    /\ entry \in {"getRunner", "getRunnerUnparsed"}
    /\ collection \in Collections
    /\ allowedIndices = AllowedIndices(FALSE, <<>>)
    /\ noTableScan \in BOOLEAN
    /\ enableIndexIntersection \in BOOLEAN
    /\ instants = {<<noTableScan, enableIndexIntersection>>}
    /\ \E ns \in {"t.c", "t.system.c", "local.c", "local.system.c"},
          f \in Filters :
          \/ /\ entry = "getRunner"
             /\ \E ta \in BOOLEAN, so \in {"empty", "other"} :
                    cq = CanonicalQuery(ns, FALSE, FALSE, ta, f, so, 0)
             /\ cqOwner = "caller"
          \/ /\ entry = "getRunnerUnparsed"
             /\ cq = [PlainQuery(ns, f) EXCEPT !.made = FALSE]
             /\ cqOwner = "none"
    /\ plannerOptions \in
          SUBSET {NO_TABLE_SCAN, INCLUDE_COLLSCAN, INCLUDE_SHARD_FILTER}
    /\ NothingDone
    /\ pc = entry

\* the invocation up to the call of QueryPlanner::plan
NextOptions ==
    \/ GetRunnerUnparsed
    \/ GetRunnerStart
    \/ FillIndices
    \/ CheckTailable
    \/ ProcessOptions
    \/ TryCache
    \/ CallPlanner

SpecOptions == InitOptions /\ [][NextOptions]_vars

\* The two toggles are server parameters that another thread may set while
\* getRunner runs (line 56; storageGlobalParams.noTableScan): one of them
\* takes its other value.
SetParameter ==
    /\ pc # "done"
    /\ \/ noTableScan' = ~noTableScan /\ UNCHANGED enableIndexIntersection
       \/ enableIndexIntersection' = ~enableIndexIntersection
             /\ UNCHANGED noTableScan
    /\ instants' = instants \cup {<<noTableScan', enableIndexIntersection'>>}
    /\ UNCHANGED <<entry, collection, allowedIndices, units, catalog, cq,
                   cqOwner, cqDeletes, plannerOptions, params, cacheSeen, qs,
                   backupQs, solutions, heap, out, outCanonicalQuery, ret,
                   calls, handed, planned, pc>>

\* getRunner for a query the noTableScan toggle counts for, from a caller
\* that passes no option
InitConcurrent ==
    /\ NoUnits
    /\ entry \in {"getRunner", "getRunnerUnparsed"}
    /\ collection = [present |-> TRUE]
    /\ allowedIndices = AllowedIndices(FALSE, <<>>)
    /\ noTableScan \in BOOLEAN
    /\ enableIndexIntersection \in BOOLEAN
    /\ instants = {<<noTableScan, enableIndexIntersection>>}
    /\ \/ /\ entry = "getRunner"
          /\ cq = PlainQuery("t.c", "other")
          /\ cqOwner = "caller"
       \/ /\ entry = "getRunnerUnparsed"
          /\ cq = [PlainQuery("t.c", "other") EXCEPT !.made = FALSE]
          /\ cqOwner = "none"
    /\ plannerOptions = {}
    /\ NothingDone
    /\ pc = entry

NextConcurrent ==
    \/ NextOptions
    \/ SetParameter

SpecConcurrent == InitConcurrent /\ [][NextConcurrent]_vars

(***************************************************************************)
(* C21                                                                     *)
(***************************************************************************)
\* the elements whose name holds the positional marker
PositionalFields == { i \in DOMAIN spec : spec[i].fieldName.rest = "$" }

\* the $elemMatch elements
ElemMatchFields ==
    { i \in DOMAIN spec :
        spec[i].value.object /\ spec[i].value.op = "$elemMatch" }

\* C21: make answers BadValue for a projection with more than one
\* positional field, with a positional field of falsy value, or with a
\* positional field and an $elemMatch element in either order; and for an
\* accepted projection the array operator is positional exactly when one
\* positional field is present, elemMatch exactly when an $elemMatch element
\* is present, and normal otherwise.
C21_ArrayOperators ==
    (pc = "done" /\ pp.status # "none") =>
        /\ ( \/ Cardinality(PositionalFields) > 1
             \/ \E i \in PositionalFields : ~spec[i].value.truth
             \/ PositionalFields # {} /\ ElemMatchFields # {} )
           => pp.status = "BadValue"
        /\ pp.status = "OK" =>
              /\ pp.arrayOpType = "POSITIONAL" <=>
                    Cardinality(PositionalFields) = 1
              /\ pp.arrayOpType = "ELEM_MATCH" <=> ElemMatchFields # {}
              /\ pp.arrayOpType = "NORMAL" <=>
                    (PositionalFields = {} /\ ElemMatchFields = {})

\* two positional fields, both inclusive, turned down
C21_Witness ==
    /\ pc = "done"
    /\ pp.status = "BadValue"
    /\ Cardinality(PositionalFields) = 2
    /\ \A i \in DOMAIN spec : spec[i].value.simple /\ spec[i].value.truth

(***************************************************************************)
(* C22                                                                     *)
(***************************************************************************)
\* the walk over the elements found no fault and one positional field
WalkedPositional ==
    /\ pc = "done"
    /\ pp.status # "none"
    /\ Cardinality(PositionalFields) = 1
    /\ pp.status = "BadValue" =>
          pp.reason = "Positional operator does not match the query specifier."

\* C22: a projection with a positional field that passed the walk is
\* accepted exactly when some field of the query is named $and or has the
\* positional field's part before the dot; otherwise make answers BadValue
\* and makes no descriptor.  A $and anywhere in the query is enough.
C22_PositionalMatchesQuery ==
    WalkedPositional =>
        LET prefix == spec[CHOOSE i \in PositionalFields : TRUE].fieldName.top
            matches == \E k \in DOMAIN query :
                          \/ query[k].top = "$and" /\ query[k].rest = ""
                          \/ query[k].top = prefix
        IN  /\ pp.status = "OK" <=> matches
            /\ ~matches =>
                  pp.status = "BadValue" /\ DOMAIN pp = {"status", "reason"}
            /\ (\E k \in DOMAIN query : query[k] = FieldName("$and", "")) =>
                  pp.status = "OK"

\* a positional projection taken for a $and that is not the first field
C22_Witness ==
    /\ WalkedPositional
    /\ pp.status = "OK"
    /\ Len(query) = 2
    /\ query[2] = FieldName("$and", "")

(***************************************************************************)
(* C30                                                                     *)
(***************************************************************************)
\* C30: when make accepts a projection with requiresDocument false, no
\* name is twice among the required fields; _id is there once when it is
\* retained, by default or by _id: <truthy>.
C30_RequiredFieldsOnce ==
    (pc = "done" /\ pp.status = "OK" /\ ~pp.requiresDocument) =>
        \A i, j \in DOMAIN pp.requiredFields :
            pp.requiredFields[i] = pp.requiredFields[j] => i = j

(***************************************************************************)
(* C26                                                                     *)
(***************************************************************************)
\* the catalog's indexes whose key pattern the query settings allow
AllowedEntries ==
    { i \in DOMAIN indexCatalog :
        \E j \in DOMAIN allowedIndices.indexKeyPatterns :
            allowedIndices.indexKeyPatterns[j] = indexCatalog[i].keyPattern }

\* C26: when the query settings hold an allowed-index list, the index list
\* of the params is the catalog's entries whose key pattern is one of the
\* allowed ones, in the catalog's order and each once, and
\* indexFiltersApplied is true; when they hold none, the index list is the
\* whole catalog and indexFiltersApplied is false.
C26_IndexFilters ==
    (entry = "getRunner" /\ pc = "tailable") =>
        IF allowedIndices.present
        THEN /\ params.indexFiltersApplied
             /\ Len(params.indices) = Cardinality(AllowedEntries)
             /\ \A k \in DOMAIN params.indices :
                   \E i \in AllowedEntries :
                       /\ Cardinality({ j \in AllowedEntries : j <= i }) = k
                       /\ params.indices[k].keyPattern = indexCatalog[i].keyPattern
        ELSE /\ ~params.indexFiltersApplied
             /\ Len(params.indices) = Len(indexCatalog)
             /\ \A k \in DOMAIN params.indices :
                   params.indices[k].keyPattern = indexCatalog[k].keyPattern

\* the first and the last of three indexes kept, for a list that allows the
\* last one twice and then the first
C26_Witness ==
    /\ entry = "getRunner"
    /\ pc = "tailable"
    /\ allowedIndices.present
    /\ Len(indexCatalog) = 3
    /\ AllowedEntries = {1, 3}
    /\ Len(allowedIndices.indexKeyPatterns) = 3
    /\ allowedIndices.indexKeyPatterns[1] = indexCatalog[3].keyPattern
    /\ allowedIndices.indexKeyPatterns[2] = indexCatalog[3].keyPattern
    /\ allowedIndices.indexKeyPatterns[3] = indexCatalog[1].keyPattern
    /\ Len(params.indices) = 2

(***************************************************************************)
(* C23                                                                     *)
(***************************************************************************)
\* C23: when the collection is absent, getRunner in either form returns OK
\* with an EOF runner of the query's namespace, whatever the query and the
\* options (a tailable query with an invalid sort too), without a call to
\* the catalog, the plan cache or the planner; the unparsed-query form sets
\* the canonical query it outputs to null.
C23_AbsentCollection ==
    (entry \in {"getRunner", "getRunnerUnparsed"} /\ ~collection.present) =>
        /\ calls = <<>> /\ handed = <<>>
        /\ catalog = NothingAsked /\ cacheSeen = NoCache /\ planned = NotPlanned
        /\ pc \in {entry, "done"}
        /\ pc = "done" =>
              /\ ret = OK
              /\ out.type = "EOF"
              /\ out.ns = cq.ns
              /\ ~out.hasCollection
              /\ entry = "getRunnerUnparsed" => outCanonicalQuery = "NULL"

\* an EOF runner for a tailable query with a sort that a capped collection
\* would turn down, on a namespace of the local database
C23_Witness ==
    /\ entry = "getRunner"
    /\ pc = "done"
    /\ ~collection.present
    /\ cq.tailable /\ cq.sort = "other"
    /\ noTableScan
    /\ INCLUDE_SHARD_FILTER \in plannerOptions
    /\ out.type = "EOF"
    /\ out.ns = "local.system.c"

(***************************************************************************)
(* C24                                                                     *)
(***************************************************************************)
\* the options of the params at the cache gateway and of every params
\* record handed to planFromCache or plan
OptionsHanded ==
    (IF pc = "cache" THEN {params.options} ELSE {})
        \cup { handed[i].params.options : i \in DOMAIN handed }

\* the toggle counts for the query: it is not empty and its namespace is
\* neither a .system. one nor of the local database
Restrictable == cq.filter # "empty" /\ cq.ns = "t.c"

\* C24: in the params handed to the cache gateway and the planner,
\* NO_TABLE_SCAN is set exactly when the caller passed it or the noTableScan
\* toggle is on and the query is not empty and its namespace neither holds
\* ".system." nor starts with "local."; INCLUDE_COLLSCAN is set whenever
\* NO_TABLE_SCAN is not, so one of the two is always there; both are there
\* only if the caller passed INCLUDE_COLLSCAN.
C24_TableScanOptions ==
    \A o \in OptionsHanded :
        /\ NO_TABLE_SCAN \in o <=>
              (NO_TABLE_SCAN \in plannerOptions \/ (noTableScan /\ Restrictable))
        /\ NO_TABLE_SCAN \notin o => INCLUDE_COLLSCAN \in o
        /\ {NO_TABLE_SCAN, INCLUDE_COLLSCAN} \cap o # {}
        /\ {NO_TABLE_SCAN, INCLUDE_COLLSCAN} \subseteq o =>
              INCLUDE_COLLSCAN \in plannerOptions

\* the toggle alone forbids the table scan, to planFromCache and to plan
C24_Witness ==
    /\ Len(handed) = 2
    /\ noTableScan
    /\ plannerOptions = {}
    /\ NO_TABLE_SCAN \in handed[1].params.options
    /\ NO_TABLE_SCAN \in handed[2].params.options
    /\ INCLUDE_COLLSCAN \notin handed[2].params.options

(***************************************************************************)
(* C25                                                                     *)
(***************************************************************************)
\* the params at the cache gateway and those handed to planFromCache or plan
ParamsHanded ==
    (IF pc = "cache" THEN {params} ELSE {})
        \cup { handed[i].params : i \in DOMAIN handed }

\* C25: INCLUDE_SHARD_FILTER is set in the params exactly when the caller
\* asked for it and the namespace has sharding metadata, and then the shard
\* key of the params is the key pattern of the metadata; the shard key is
\* absent when the flag was not asked for or there is no metadata; and an
\* invocation never ends in an error for want of metadata.
C25_ShardFilter ==
    /\ \A p \in ParamsHanded :
          LET asked == INCLUDE_SHARD_FILTER \in plannerOptions
              sharded == catalog.metadata \notin {"unknown", "NULL"}
          IN  /\ asked => catalog.metadata # "unknown"
              /\ INCLUDE_SHARD_FILTER \in p.options <=> (asked /\ sharded)
              /\ INCLUDE_SHARD_FILTER \in p.options =>
                    p.shardKey = catalog.metadata
              /\ ~(asked /\ sharded) => p.shardKey = ""
    /\ pc = "cache" => ret = Running

\* the flag stripped for a caller that asked for it, and planning called
C25_Witness ==
    /\ INCLUDE_SHARD_FILTER \in plannerOptions
    /\ catalog.metadata = "NULL"
    /\ Len(handed) = 1
    /\ handed[1].to = "plan"
    /\ INCLUDE_SHARD_FILTER \notin handed[1].params.options
    /\ handed[1].params.shardKey = ""

(***************************************************************************)
(* C27                                                                     *)
(***************************************************************************)
\* C27: every params record getRunner hands to a planner collaborator,
\* planFromCache as well as plan, has KEEP_MUTATIONS set, and
\* INDEX_INTERSECTION set when the enableIndexIntersection toggle is on.
C27_PlanningOptionsHanded ==
    \A i \in DOMAIN handed :
        /\ KEEP_MUTATIONS \in handed[i].params.options
        /\ enableIndexIntersection =>
              INDEX_INTERSECTION \in handed[i].params.options

\* What holds of the two bits: the params handed to QueryPlanner::plan have
\* KEEP_MUTATIONS, and INDEX_INTERSECTION exactly when the toggle is on;
\* the params handed to planFromCache have neither.
C27_PlanningOptionsAtPlan ==
    \A i \in DOMAIN handed :
        IF handed[i].to = "plan"
        THEN /\ KEEP_MUTATIONS \in handed[i].params.options
             /\ INDEX_INTERSECTION \in handed[i].params.options
                   <=> enableIndexIntersection
        ELSE {KEEP_MUTATIONS, INDEX_INTERSECTION}
                 \cap handed[i].params.options = {}

(***************************************************************************)
(* C29                                                                     *)
(***************************************************************************)
\* C29: within one invocation the two toggles are read together when the
\* assembly of the params begins and not again, so that whatever another
\* thread sets meanwhile, the params handed to QueryPlanner::plan show the
\* values the two toggles had at one instant of the invocation.
C29_OneInstant ==
    \A i \in DOMAIN handed :
        handed[i].to = "plan" =>
            \E instant \in instants :
                /\ NO_TABLE_SCAN \in handed[i].params.options <=>
                      (NO_TABLE_SCAN \in plannerOptions
                          \/ (instant[1] /\ Restrictable))
                /\ INDEX_INTERSECTION \in handed[i].params.options <=>
                      instant[2]

(***************************************************************************)
(* C28                                                                     *)
(***************************************************************************)
\* one interval, and that a point
OnePoint(oil) ==
    /\ Len(oil) = 1
    /\ oil[1].startInclusive /\ oil[1].endInclusive
    /\ oil[1].start = oil[1].end

\* one interval, and that all values, upwards or downwards
OneAllValues(oil) ==
    /\ Len(oil) = 1
    /\ oil[1].startInclusive /\ oil[1].endInclusive
    /\ {oil[1].start, oil[1].end} = {MinKey, MaxKey}

\* points, then at most one field of one interval that is no point, and
\* after that one only all-values fields
CountableBounds(fields) ==
    \E np \in 0..Len(fields) :
        /\ \A i \in 1..np : OnePoint(fields[i])
        /\ np < Len(fields) =>
              /\ Len(fields[np + 1]) = 1
              /\ ~OnePoint(fields[np + 1])
              /\ \A i \in (np + 2)..Len(fields) : OneAllValues(fields[i])

\* C28: turnIxscanIntoCount returns true exactly when the root is a FETCH
\* without filter over an IXSCAN without filter whose bounds are not a
\* simple range and read, field by field, as points, then at most one
\* single interval that is no point, then only all-values intervals in
\* either direction; on true the root is a Count node with the key pattern
\* of the IXSCAN; on false the tree is as it was, and a second call changes
\* nothing.
C28_CountRewrite ==
    /\ pc = "once" =>
          LET r == solnRootBefore
              isn == r.children[1]
          IN  /\ turned <=>
                    /\ r.type = "FETCH" /\ ~r.filter
                    /\ isn.type = "IXSCAN" /\ ~isn.filter /\ ~isn.isSimpleRange
                    /\ CountableBounds(isn.bounds)
              /\ turned =>
                    /\ solnRoot.type = "COUNT"
                    /\ solnRoot.indexKeyPattern = isn.indexKeyPattern
              /\ ~turned => solnRoot = r
    /\ (entry = "none" /\ pc = "done" /\ solnRootBefore.type # "none") =>
          ~turned /\ solnRoot = solnRootBefore

\* a count made of a point, a half-open range and all values downwards, and
\* left alone by the second call
C28_Witness ==
    /\ entry = "none"
    /\ pc = "done"
    /\ solnRoot.type = "COUNT"
    /\ solnRoot.indexKeyPattern = <<"b", "a", "c">>
    /\ solnRoot.startKey = <<1, 1, MaxKey>>
    /\ ~solnRoot.endKeyInclusive
    /\ solnRootBefore = solnRoot

=============================================================================
